---- MODULE Spec2Model ----
(***************************************************************************)
(* A model of the CAD runner (src/python/runner.py): the static sanitizer  *)
(* (strip_unknown_calls, guard_fillet_chamfer), the execution of the       *)
(* sanitized script, the result normalizer (_extract_exportables,          *)
(* _normalize_result_for_export), the solid repairer                       *)
(* (_ensure_single_solid) and the pipeline of main().                      *)
(*                                                                         *)
(* A script is a text: a sequence of lines and a flag telling whether the  *)
(* last line is terminated.  A line is a record [t, ind, n]:               *)
(*   ind  the number of leading spaces,                                    *)
(*   t    the text that follows the indentation, one of                    *)
(*        "blank"     (nothing)                                            *)
(*        "comment"   # fillet(edges) later                                *)
(*        "pass"      pass                                                 *)
(*        "build"     result = Box(1, 1, 1)                                *)
(*        "fillet"    result = fillet(Box(2, 2, 2).edges(), 1)             *)
(*        "call"      foo(result)                                          *)
(*        "call2"     foo(bar(result))                                     *)
(*        "bindcall"  helper = foo(result)                                 *)
(*        "bind"      helper = Box                                         *)
(*        "usehelper" helper(2)                                            *)
(*        "exit"      exit()                                               *)
(*        "try"       try:                                                 *)
(*        "except"    except Exception:                                    *)
(*        "else"      else:                                                *)
(*        "if"        if flag:                                             *)
(*        "ifcall"    if foo(result):                                      *)
(*        "def"       def run(helper):                                     *)
(*        "stripped"  pass  # stripped unknown: <n>                        *)
(*        "marker"    # auto-fillet-guard                                  *)
(*   n    the name in the annotation of a "stripped" line, "" otherwise.   *)
(* The scripts that are enumerated are indented with spaces, one level is  *)
(* four spaces wide, each statement is on one line and each header opens   *)
(* a block on the next lines.                                              *)
(***************************************************************************)
EXTENDS Integers, Sequences, FiniteSets, TLC

\* ------------------------------------------------------------------ bounds
\* the number of lines of the texts of SpecSan and of SpecRun
MaxLines == 3

MaxRunLines == 4

\* the number of lines of the texts of Spec and of SpecRegistry
MaxMainLines == 2

\* the number of objects a script builds on top of Pool, and the number of
\* elements these objects have together, in SpecNorm
MaxObjects == 2

MaxRefs == 5

\* the number of elements of the object a script builds in Spec
MaxMainRefs == 2

\* the number of solids _count_solids may find
MaxSolids == 3

\* the number of faces of a mesh, and the number of entries its face
\* selectors and its list of areas have together
MaxFaces == 2

\* the rates, the gates and the baseline rates of evaluate_gates, in
\* percentage points
MaxRate == 2

\* the number of candidate rotations whose metrics differ from those of the
\* identity
MaxVaried == 2

\* the number of scripts a process sanitizes, in SpecRegistry
MaxCalls == 3

\* the largest value of --max-attempts, in SpecAttempts
MaxAttempts == 3

\* the number of values an object with attributes holds, in SpecAccessors
\* and SpecCycles
MaxKids == 2

\* the depth of the recursion the interpreter allows before it raises
\* RecursionError
MaxDepth == 5

\* The width the guard adds to a wrapped line ("    "), also the width of
\* one nesting level of the scripts that are enumerated.
IndentStep == 4

\* ------------------------------------------------------------------- lines
Line(t, ind) == [t |-> t, ind |-> ind, n |-> ""]

StrippedLine(ind, name) == [t |-> "stripped", ind |-> ind, n |-> name]

\* line.lstrip() == "" : the line holds nothing but whitespace
IsBlank(l) == l.t = "blank"

\* stripped.startswith("#")
IsComment(l) == l.t \in {"comment", "marker"}

\* a line Python's tokenizer gives to the parser
IsLogical(l) == ~IsBlank(l) /\ ~IsComment(l)

\* the bare-name calls  Name(...)  of the line, in the order ast.walk
\* visits them (breadth first: an outer call before the calls among its
\* arguments)
Calls(l) ==
    CASE l.t = "build"     -> <<"Box">>
      [] l.t = "fillet"    -> <<"fillet", "Box">>
      [] l.t = "call"      -> <<"foo">>
      [] l.t = "ifcall"    -> <<"foo">>
      [] l.t = "call2"     -> <<"foo", "bar">>
      [] l.t = "bindcall"  -> <<"foo">>
      [] l.t = "usehelper" -> <<"helper">>
      [] l.t = "exit"      -> <<"exit">>
      [] OTHER             -> <<>>

\* the names _collect_code_defined_names takes from the line: the target
\* of a plain assignment  Name = ... , the name of a function definition
AssignTargets(l) ==
    CASE l.t \in {"build", "fillet"}  -> {"result"}
      [] l.t \in {"bindcall", "bind"} -> {"helper"}
      [] l.t = "def"                  -> {"run"}
      [] OTHER                        -> {}

\* the keyword that opens a compound-statement header, "" for other lines
HeaderWord(l) ==
    CASE l.t \in {"try", "except", "else", "if", "def"} -> l.t
      [] l.t = "ifcall" -> "if"
      [] OTHER -> ""

IsHeader(l) == HeaderWord(l) # ""

\* "fillet(" in line or "chamfer(" in line
HasFilletText(l) == l.t \in {"fillet", "comment"}

\* "auto-fillet-guard" in line
HasGuardMarker(l) == l.t = "marker"

\* ------------------------------------------------------------------- texts
EmptyLine == Line("blank", 0)

\* A text is [lines, nl]: the lines separated by "\n", and nl telling
\* whether a final "\n" follows the last line.  The same string has one
\* representation only: a text that ends with an unterminated empty line is
\* the text without that line.
Canon(x) ==
    IF x.lines # <<>> /\ ~x.nl /\ x.lines[Len(x.lines)] = EmptyLine
    THEN [lines |-> SubSeq(x.lines, 1, Len(x.lines) - 1),
          nl    |-> Len(x.lines) > 1]
    ELSE x

\* str.splitlines()
SplitLines(text) == text.lines

\* "\n".join(lines)
JoinLines(lines) == Canon([lines |-> lines, nl |-> FALSE])

\* ------------------------------------------------------------ ast.parse
\* The parser keeps the stack of the open blocks, each with the indentation
\* of its body and the clause that opened it: "module", "try", "except",
\* "tryelse", "if", "ifelse".  pending is the clause whose body
\* has not started yet.
ParseStart ==
    [ok |-> TRUE, stack |-> <<[ind |-> 0, hdr |-> "module"]>>,
     pending |-> "none"]

ParseFail == [ok |-> FALSE, stack |-> <<>>, pending |-> "none"]

\* the clause a line may follow: prev is the clause whose block the line
\* closes ("none" when it follows a simple statement of its own block)
ClauseFits(word, prev) ==
    CASE word = "except"  -> prev \in {"try", "except"}
      [] word = "else"    -> prev \in {"if", "except"}
      [] OTHER            -> prev # "try"

PendingOf(word, prev) ==
    CASE word = ""     -> "none"
      [] word = "else" -> IF prev = "if" THEN "ifelse" ELSE "tryelse"
      [] OTHER         -> word

ParseClause(stack, prev, l) ==
    IF ClauseFits(HeaderWord(l), prev)
    THEN [ok |-> TRUE, stack |-> stack,
          pending |-> PendingOf(HeaderWord(l), prev)]
    ELSE ParseFail

ParseLine(s, l) ==
    IF ~s.ok \/ ~IsLogical(l) THEN s
    ELSE IF s.pending # "none"
    THEN IF l.ind > s.stack[Len(s.stack)].ind
         THEN ParseClause(Append(s.stack, [ind |-> l.ind, hdr |-> s.pending]),
                          "none", l)
         ELSE ParseFail
    ELSE IF \E k \in DOMAIN s.stack : s.stack[k].ind = l.ind
    THEN LET k == CHOOSE j \in DOMAIN s.stack : s.stack[j].ind = l.ind
             popped == SubSeq(s.stack, k + 1, Len(s.stack))
             prev == IF popped = <<>> THEN "none" ELSE popped[1].hdr
         IN  IF \A j \in 2..Len(popped) : popped[j].hdr # "try"
             THEN ParseClause(SubSeq(s.stack, 1, k), prev, l)
             ELSE ParseFail
    ELSE ParseFail

RECURSIVE ParseFrom(_, _, _)
ParseFrom(lines, i, s) ==
    IF i > Len(lines) THEN s
    ELSE ParseFrom(lines, i + 1, ParseLine(s, lines[i]))

\* ast.parse(code) does not raise SyntaxError
ParseOK(lines) ==
    LET s == ParseFrom(lines, 1, ParseStart)
    IN  /\ s.ok
        /\ s.pending = "none"
        /\ \A j \in 2..Len(s.stack) : s.stack[j].hdr # "try"

\* ------------------------------------------------------- the name registry
\* the names of builtins, math and build123d that the scripts use
RegistryNames == {"Box", "fillet", "exit"}

\* _VALID_NAMES_CACHE is [built, names, gen]: built is FALSE while it is
\* None, gen tells the set objects apart: it is the number of sets that
\* have been constructed
NoCache == [built |-> FALSE, names |-> {}, gen |-> 0]

\* _get_valid_names constructing the set at every call
GetValidNamesRebuilding(cache) ==
    [built |-> TRUE, names |-> RegistryNames, gen |-> cache.gen + 1]

\* _get_valid_names: the cache after the call; the call returns its names
GetValidNames(cache) ==
    IF cache.built THEN cache
    ELSE [built |-> TRUE, names |-> RegistryNames, gen |-> cache.gen + 1]

\* _collect_code_defined_names: the targets of the script's assignments
CollectCodeDefinedNames(lines) ==
    UNION {AssignTargets(lines[i]) : i \in DOMAIN lines}

\* ------------------------------------------------------ strip_unknown_calls
IsUnknown(name, valid, defined) == name \notin valid /\ name \notin defined

UnknownCalls(l, valid, defined) ==
    SelectSeq(Calls(l), LAMBDA c : IsUnknown(c, valid, defined))

\* bad_lines[node.lineno] = func.id : a later call of the walk overwrites
\* the name an earlier call of the same line has left
BadName(l, valid, defined) ==
    LET u == UnknownCalls(l, valid, defined) IN u[Len(u)]

BadLines(lines, valid, defined) ==
    {i \in DOMAIN lines : UnknownCalls(lines[i], valid, defined) # <<>>}

RECURSIVE RemovedFrom(_, _, _, _)
RemovedFrom(lines, i, valid, defined) ==
    IF i > Len(lines) THEN <<>>
    ELSE IF i \in BadLines(lines, valid, defined)
    THEN <<BadName(lines[i], valid, defined)>>
             \o RemovedFrom(lines, i + 1, valid, defined)
    ELSE RemovedFrom(lines, i + 1, valid, defined)

StripUnknownCalls(code, valid) ==
    LET lines   == SplitLines(code)
        defined == CollectCodeDefinedNames(lines)
        bad     == BadLines(lines, valid, defined)
    IN  IF ~ParseOK(lines) \/ bad = {}
        THEN [code |-> code, removed |-> <<>>]
        ELSE [code |-> JoinLines(
                  [i \in DOMAIN lines |->
                      IF i \in bad
                      THEN StrippedLine(lines[i].ind,
                                        BadName(lines[i], valid, defined))
                      ELSE lines[i]]),
              removed |-> RemovedFrom(lines, 1, valid, defined)]

\* ----------------------------------------------------- guard_fillet_chamfer
\* _indent_width: the lines are indented with spaces only
IndentWidth(l) == l.ind

\* _is_try_header (no script that is enumerated has a  finally:  clause)
IsTryHeader(l) ==
    /\ IsHeader(l)
    /\ HeaderWord(l) \in {"try", "except", "else", "finally"}

RECURSIVE PopProtected(_, _)
PopProtected(protected, indent) ==
    IF protected # <<>> /\ indent <= protected[Len(protected)]
    THEN PopProtected(SubSeq(protected, 1, Len(protected) - 1), indent)
    ELSE protected

InTry(protected, indent) ==
    protected # <<>> /\ indent > protected[Len(protected)]

NeedsGuard(l, in_try) ==
    /\ HasFilletText(l)
    /\ ~in_try
    /\ ~IsComment(l)
    /\ ~IsBlank(l)
    /\ ~HasGuardMarker(l)

GuardBlock(l) ==
    << Line("marker", l.ind),
       Line("try", l.ind),
       [l EXCEPT !.ind = l.ind + IndentStep],
       Line("except", l.ind),
       Line("pass", l.ind + IndentStep) >>

RECURSIVE GuardLoop(_, _, _, _)
GuardLoop(lines, i, protected, out) ==
    IF i > Len(lines) THEN out
    ELSE LET l      == lines[i]
             indent == IndentWidth(l)
             prot1  == IF ~IsBlank(l) THEN PopProtected(protected, indent)
                       ELSE protected
             out1   == IF NeedsGuard(l, InTry(prot1, indent))
                       THEN out \o GuardBlock(l)
                       ELSE Append(out, l)
             prot2  == IF ~IsBlank(l) /\ IsTryHeader(l)
                       THEN Append(prot1, indent)
                       ELSE prot1
         IN  GuardLoop(lines, i + 1, prot2, out1)

GuardFilletChamfer(code) ==
    JoinLines(GuardLoop(SplitLines(code), 1, <<>>, <<>>))

\* ------------------------------------------------------ exec(code, namespace)
\* The namespace is [result, helper]: result is the sequence of the
\* operations that built the value bound to  result  (<<>> while the name is
\* unbound), helper tells whether  helper  is bound.  fails is the set of
\* the lines whose fillet operation fails, flag the value of the condition
\* of the  if  headers.
EmptyNamespace == [result |-> <<>>, helper |-> FALSE]

\* the next line at or after i that holds a statement, Len + 1 if none
RECURSIVE NextLogical(_, _)
NextLogical(lines, i) ==
    IF i > Len(lines) THEN Len(lines) + 1
    ELSE IF IsLogical(lines[i]) THEN i
    ELSE NextLogical(lines, i + 1)

\* the first statement after the block of the header at h
RECURSIVE BlockEndFrom(_, _, _)
BlockEndFrom(lines, h, i) ==
    IF i > Len(lines) THEN Len(lines) + 1
    ELSE IF IsLogical(lines[i]) /\ lines[i].ind <= lines[h].ind THEN i
    ELSE BlockEndFrom(lines, h, i + 1)

BlockEnd(lines, h) == BlockEndFrom(lines, h, h + 1)

\* the header of the innermost block that holds line p, 0 at module level
Enclosing(lines, p) ==
    LET hs == {h \in 1..(p - 1) :
                  IsLogical(lines[h]) /\ lines[h].ind < lines[p].ind}
    IN  IF hs = {} THEN 0 ELSE CHOOSE h \in hs : \A g \in hs : g <= h

\* the header of the clause whose block ends right before the clause at n
ClauseBefore(lines, n) ==
    LET hs == {h \in 1..(n - 1) :
                  IsLogical(lines[h]) /\ lines[h].ind <= lines[n].ind}
    IN  CHOOSE h \in hs : \A g \in hs : g <= h

IsClauseAt(lines, i, words, ind) ==
    i <= Len(lines) /\ HeaderWord(lines[i]) \in words /\ lines[i].ind = ind

\* skip the clauses with a word of words that follow each other from i
RECURSIVE SkipClauses(_, _, _, _)
SkipClauses(lines, i, words, ind) ==
    IF IsClauseAt(lines, i, words, ind)
    THEN SkipClauses(lines, BlockEnd(lines, i), words, ind)
    ELSE i

\* Where control goes when it falls onto line n after the end of a block:
\* a clause header there belongs to the statement whose clause just ended.
RECURSIVE Resolve(_, _)
Resolve(lines, n) ==
    IF n > Len(lines) \/ HeaderWord(lines[n]) \notin {"except", "else"}
    THEN n
    ELSE LET ind  == lines[n].ind
             done == HeaderWord(lines[ClauseBefore(lines, n)])
             \* the clauses that do not run after the clause that ended
             skip == CASE done = "try"    -> {"except"}
                       [] done = "except" -> {"except", "else"}
                       [] done = "if"     -> {"else"}
                       [] OTHER           -> {}
             m    == SkipClauses(lines, n, skip, ind)
         IN  IF IsClauseAt(lines, m, {"else"}, ind)
             THEN NextLogical(lines, m + 1)
             ELSE Resolve(lines, m)

\* The except clause that catches an Exception raised at line p, 0 if none.
\* Only the body of a try is covered by its except clauses.
RECURSIVE Handler(_, _)
Handler(lines, p) ==
    LET h == Enclosing(lines, p)
    IN  IF h = 0 THEN 0
        ELSE IF HeaderWord(lines[h]) = "try"
                /\ IsClauseAt(lines, BlockEnd(lines, h), {"except"}, lines[h].ind)
        THEN BlockEnd(lines, h)
        ELSE Handler(lines, h)

\* what the statement of line p raises in namespace ns: "none", "Exception"
\* (NameError, or the failure of the fillet operation) or "SystemExit"
Raises(l, p, ns, fails) ==
    CASE l.t = "fillet" -> IF p \in fails THEN "Exception" ELSE "none"
      [] l.t \in {"call", "call2", "bindcall"} -> "Exception"
      [] l.t = "usehelper" -> IF ns.helper THEN "none" ELSE "Exception"
      [] l.t = "exit" -> "SystemExit"
      [] OTHER -> "none"

\* the namespace after the statement of line l has run without raising
Effect(l, ns) ==
    CASE l.t = "build"  -> [ns EXCEPT !.result = <<"Box">>]
      [] l.t = "fillet" -> [ns EXCEPT !.result = <<"Box", "fillet">>]
      [] l.t = "bind"   -> [ns EXCEPT !.helper = TRUE]
      [] OTHER          -> ns

RECURSIVE Run(_, _, _, _, _)
Run(lines, p, ns, fails, flag) ==
    IF p > Len(lines) THEN [status |-> "ok", ns |-> ns, at |-> 0]
    ELSE LET l == lines[p] IN
         IF HeaderWord(l) = "def"
         THEN \* the body of a function runs when the function is called
              Run(lines, Resolve(lines, BlockEnd(lines, p)), ns, fails, flag)
         ELSE IF HeaderWord(l) = "if" /\ ~flag
         THEN LET e == BlockEnd(lines, p)
              IN  IF IsClauseAt(lines, e, {"else"}, l.ind)
                  THEN Run(lines, NextLogical(lines, e + 1), ns, fails, flag)
                  ELSE Run(lines, Resolve(lines, e), ns, fails, flag)
         ELSE IF IsHeader(l)
         THEN Run(lines, NextLogical(lines, p + 1), ns, fails, flag)
         ELSE LET r == Raises(l, p, ns, fails) IN
              IF r = "none"
              THEN Run(lines, Resolve(lines, NextLogical(lines, p + 1)),
                       Effect(l, ns), fails, flag)
              ELSE IF r = "Exception" /\ Handler(lines, p) # 0
              THEN Run(lines, NextLogical(lines, Handler(lines, p) + 1),
                       ns, fails, flag)
              ELSE [status |-> r, ns |-> ns, at |-> p]

\* exec(code, namespace): the status is "ok", or the class of the exception
\* that leaves exec ("Exception" covers SyntaxError); at is the line of the
\* statement that raised it
ExecCode(code, fails, flag) ==
    IF ~ParseOK(SplitLines(code))
    THEN [status |-> "Exception", ns |-> EmptyNamespace, at |-> 0]
    ELSE Run(SplitLines(code), NextLogical(SplitLines(code), 1),
             EmptyNamespace, fails, flag)

\* -------------------------------------------------------- the result value
\* The objects a script leaves behind are a heap: a sequence of objects, an
\* object being known by its index (its identity, id(candidate)).  An object
\* is [k, kids, v, len]:
\*   k = "none"       None
\*       "str"        a string of len characters, v its text
\*       "scalar"     an int, float or bool of value v
\*       "map"        a Mapping whose values are kids
\*       "list", "tuple", "set"   a container whose elements are kids
\*       "workplane"  an object with vals() and val(): vals() returns kids,
\*                    val() the first of them
\*       "buildpart"  an object whose attribute  part  is the first of kids,
\*                    None when there is none
\*       "buildsketch" the same with the attribute  sketch, the last of
\*                    kids
\*       "shape"      an object with the attribute  wrapped; v is its
\*                    geometry, two shapes of the same v are equal
\*       "other"      any other object, v its type
\*   attrs  the attributes the object has on top of what its class gives
\*          it, of "vals", "val", "part", "sketch" and "wrapped": vals()
\*          returns kids, val() and part are the first of kids and sketch
\*          is the last of them, None when there is none;
\*   raises the methods of "vals" and "val" that raise when called.
Obj(k, kids, v, len) ==
    [k |-> k, kids |-> kids, v |-> v, len |-> len, attrs |-> {}, raises |-> {}]

\* an object of class k with the attributes attrs: a string is "oops", a
\* number is 5
Accessor(k, attrs, raises, kids) ==
    [k |-> k, kids |-> kids,
     v |-> (CASE k = "str" -> 1 [] k = "scalar" -> 5 [] OTHER -> 0),
     len |-> (IF k = "str" THEN 4 ELSE 0),
     attrs |-> attrs, raises |-> raises]

\* the objects every heap starts with: 1 and 2 are two equal shapes, 3 is
\* the string "oops", 4 the number 5 and 5 is None
Pool ==
    << Obj("shape", <<>>, 1, 0), Obj("shape", <<>>, 1, 0),
       Obj("str", <<>>, 1, 4), Obj("scalar", <<>>, 5, 0),
       Obj("none", <<>>, 0, 0) >>

\* the number of characters of a string that its entry shows: [:40]
PreviewLen == 40

Min(a, b) == IF a < b THEN a ELSE b

\* _is_string_like
IsStringLike(o) == o.k = "str"

StringEntry(o) == [kind |-> "string", v |-> o.v, shown |-> Min(o.len, PreviewLen)]

ScalarEntry(o) == [kind |-> "scalar", v |-> o.v, shown |-> 0]

TypeEntry(o) == [kind |-> "type", v |-> o.v, shown |-> 0]

\* isinstance(candidate, Mapping)
IsMapping(o) == o.k = "map"

\* isinstance(candidate, (list, tuple)): the sets are forgotten
IsListOrTuple(o) == o.k \in {"list", "tuple"}

\* isinstance(candidate, (list, tuple, set))
IsSequence(o) == o.k \in {"list", "tuple", "set"}

\* hasattr(candidate, "vals") and callable(candidate.vals)
HasVals(o) == o.k = "workplane" \/ "vals" \in o.attrs

\* hasattr(candidate, "val") and callable(candidate.val)
HasVal(o) == o.k = "workplane" \/ "val" \in o.attrs

\* hasattr(candidate, "part"), hasattr(candidate, "sketch")
HasPart(o) == o.k = "buildpart" \/ "part" \in o.attrs

HasSketch(o) == o.k = "buildsketch" \/ "sketch" \in o.attrs

\* hasattr(candidate, "wrapped")
HasWrapped(o) == o.k = "shape" \/ "wrapped" \in o.attrs

\* isinstance(candidate, (int, float, bool))
IsScalar(o) == o.k = "scalar"

\* the shapes are told apart by their geometry, not by their identity
EqualityKey(heap, r) == heap[r].v

\* obj_id = id(candidate)
IdentityKey(heap, r) == r

\* candidate.vals(), a list, candidate.val(), candidate.part and
\* candidate.sketch: the reference 0 is None
ValsOf(o) == o.kids

ValOf(o) == IF o.kids = <<>> THEN 0 ELSE o.kids[1]

PartOf(o) == IF o.kids = <<>> THEN 0 ELSE o.kids[1]

SketchOf(o) == IF o.kids = <<>> THEN 0 ELSE o.kids[Len(o.kids)]

IsNone(heap, r) == r = 0 \/ heap[r].k = "none"

\* acc is [found, invalid, seen_ids] and the exception in flight: err says
\* that a RecursionError is being raised, overflow that one was raised
NoExtract ==
    [found |-> <<>>, invalid |-> <<>>, seen |-> {}, err |-> FALSE,
     overflow |-> FALSE]

\* except Exception: pass
Caught(acc) == [acc EXCEPT !.err = FALSE]

\* _extract_exportables.add_candidate called at depth d of the recursion,
\* and its loops over the values of a container
RECURSIVE AddCandidate(_, _, _, _)
RECURSIVE AddEach(_, _, _, _)
AddEach(heap, refs, acc, d) ==
    IF refs = <<>> \/ acc.err THEN acc
    ELSE AddEach(heap, Tail(refs), AddCandidate(heap, Head(refs), acc, d), d)

\* add_candidate from the rule of the shapes on
AddLeaf(heap, r, acc) ==
    LET o == heap[r] IN
    IF HasWrapped(o)
    THEN IF IdentityKey(heap, r) \notin acc.seen
         THEN [acc EXCEPT !.seen = @ \cup {IdentityKey(heap, r)},
                          !.found = Append(@, r)]
         ELSE acc
    ELSE IF IsScalar(o)
    THEN [acc EXCEPT !.invalid = Append(@, ScalarEntry(o))]
    ELSE [acc EXCEPT !.invalid = Append(@, TypeEntry(o))]

\* add_candidate from the rule of  part  on: what the recursion raises is
\* not caught here
AddByAttribute(heap, r, acc, d) ==
    LET o == heap[r] IN
    IF HasPart(o) /\ ~IsNone(heap, PartOf(o))
    THEN AddCandidate(heap, PartOf(o), acc, d + 1)
    ELSE IF HasSketch(o) /\ ~IsNone(heap, SketchOf(o))
    THEN AddCandidate(heap, SketchOf(o), acc, d + 1)
    ELSE AddLeaf(heap, r, acc)

\* add_candidate from the rule of val() on
AddByVal(heap, r, acc, d) ==
    LET o     == heap[r]
        tried == AddCandidate(heap, ValOf(o), acc, d + 1)
    IN  IF HasVal(o) /\ "val" \notin o.raises /\ ~IsNone(heap, ValOf(o))
           /\ ValOf(o) # r
        THEN IF tried.err THEN AddByAttribute(heap, r, Caught(tried), d)
             ELSE tried
        ELSE AddByAttribute(heap, r, acc, d)

\* add_candidate taking vals() that returns nothing for an empty result
AddByValsEmptyEnds(heap, r, acc, d) ==
    LET o == heap[r] IN
    IF HasVals(o) /\ "vals" \notin o.raises
    THEN AddEach(heap, ValsOf(o), acc, d + 1)
    ELSE AddByVal(heap, r, acc, d)

\* add_candidate from the rule of vals() on
AddByVals(heap, r, acc, d) ==
    LET o     == heap[r]
        tried == AddEach(heap, ValsOf(o), acc, d + 1)
    IN  IF HasVals(o) /\ "vals" \notin o.raises /\ ValsOf(o) # <<>>
        THEN IF tried.err THEN AddByVal(heap, r, Caught(tried), d)
             ELSE tried
        ELSE AddByVal(heap, r, acc, d)

AddCandidate(heap, r, acc, d) ==
    LET o == heap[r] IN
    IF d > MaxDepth THEN [acc EXCEPT !.err = TRUE, !.overflow = TRUE]
    ELSE IF o.k = "none" THEN acc
    ELSE IF IsStringLike(o)
    THEN [acc EXCEPT !.invalid = Append(@, StringEntry(o))]
    ELSE IF IsMapping(o) THEN AddEach(heap, o.kids, acc, d + 1)
    ELSE IF IsSequence(o) THEN AddEach(heap, o.kids, acc, d + 1)
    ELSE AddByVals(heap, r, acc, d)

\* _extract_exportables
ExtractExportables(heap, r) == AddCandidate(heap, r, NoExtract, 0)

\* the number of invalid entries the message of the error shows: invalid[:3]
MaxExamples == 3

\* _normalize_result_for_export with its two checks in the other order
NormalizeMixedFirst(heap, r) ==
    LET x == ExtractExportables(heap, r) IN
    IF x.err
    THEN [status |-> "recursion-error", parts |-> <<>>, examples |-> <<>>]
    ELSE IF x.invalid # <<>>
    THEN [status |-> "mixed", parts |-> <<>>,
          examples |-> SubSeq(x.invalid, 1, Min(Len(x.invalid), MaxExamples))]
    ELSE IF x.found = <<>>
    THEN [status |-> "no-geometry", parts |-> <<>>, examples |-> <<>>]
    ELSE [status |-> "ok", parts |-> x.found, examples |-> <<>>]

\* _normalize_result_for_export: the parts it returns (one part, or the
\* children of a Compound), or the ValueError it raises
NormalizeResultForExport(heap, r) ==
    LET x == ExtractExportables(heap, r) IN
    IF x.err
    THEN [status |-> "recursion-error", parts |-> <<>>, examples |-> <<>>]
    ELSE IF x.found = <<>>
    THEN [status |-> "no-geometry", parts |-> <<>>, examples |-> <<>>]
    ELSE IF x.invalid # <<>>
    THEN [status |-> "mixed", parts |-> <<>>,
          examples |-> SubSeq(x.invalid, 1, Min(Len(x.invalid), MaxExamples))]
    ELSE [status |-> "ok", parts |-> x.found, examples |-> <<>>]

NoNorm == [status |-> "none", parts |-> <<>>, examples |-> <<>>]

\* ------------------------------------------------------------- the inputs
\* the indentation a line may have after the lines s: one level more than
\* a header, else any level up to that of the last statement
LastLogical(s) ==
    LET ls == {i \in DOMAIN s : IsLogical(s[i])}
    IN  IF ls = {} THEN 0 ELSE CHOOSE i \in ls : \A j \in ls : j <= i

IndentsAfter(s) ==
    LET q == LastLogical(s)
    IN  IF q = 0 THEN {0}
        ELSE IF IsHeader(s[q]) THEN {s[q].ind + IndentStep}
        ELSE {k * IndentStep : k \in 0..(s[q].ind \div IndentStep)}

LinesAfter(s, templates) ==
    {Line(t, ind) : t \in templates \ {"blank"}, ind \in IndentsAfter(s)}
        \cup (IF "blank" \in templates THEN {EmptyLine} ELSE {})

\* What the environment writes before main starts depends on the
\* specification: the templates of the lines and the number of lines of the
\* input file, the kinds and the number of the objects its execution
\* builds on top of Pool, and the number of elements of such an object.
Templates(d) ==
    CASE d = "san" ->
             {"blank", "comment", "pass", "build", "fillet", "call", "call2",
              "bindcall", "bind", "usehelper", "exit", "try", "except",
              "else", "if", "ifcall", "def"}
      [] d = "run" ->
             {"pass", "build", "fillet", "try", "except", "else", "if"}
      [] d = "main" -> {"build", "fillet", "call", "exit"}
      [] d = "reg" -> {"build", "call", "try"}
      [] OTHER -> {}

MaxLen(d) ==
    CASE d = "san" -> MaxLines
      [] d = "run" -> MaxRunLines
      [] d \in {"main", "reg"} -> MaxMainLines
      [] OTHER -> 0

Kinds(d) ==
    CASE d = "norm" -> {"list", "map", "set"}
      [] d = "main" -> {"list"}
      [] OTHER -> {}

MaxObjs(d) ==
    CASE d = "norm" -> MaxObjects
      [] d \in {"main", "acc", "cyc"} -> 1
      [] OTHER -> 0

MaxRefsOf(d) ==
    CASE d = "norm" -> MaxRefs
      [] d = "main" -> MaxMainRefs
      [] d \in {"acc", "cyc"} -> MaxKids
      [] OTHER -> 0

EmptyText == [lines |-> <<>>, nl |-> FALSE]

NoStrip == [code |-> EmptyText, removed |-> <<>>]

NoRun == [status |-> "none", ns |-> EmptyNamespace, at |-> 0]

\* the sequences of at most n elements of S
RECURSIVE SeqsUpTo(_, _)
SeqsUpTo(S, n) ==
    IF n = 0 THEN {<<>>}
    ELSE LET R == SeqsUpTo(S, n - 1)
         IN  R \cup {Append(q, x) : q \in R, x \in S}

IsInjective(q) == \A a, b \in DOMAIN q : a # b => q[a] # q[b]

\* the number of elements the objects of heap have together
RECURSIVE RefsIn(_)
RefsIn(heap) ==
    IF heap = <<>> THEN 0 ELSE Len(Head(heap).kids) + RefsIn(Tail(heap))

\* the objects with at most n elements that a script can build from the
\* objects of heap: the elements of a set are distinct and hashable
NewObjects(heap, kinds, n) ==
    {Obj(k, q, 0, 0) : k \in kinds \ {"set"}, q \in SeqsUpTo(DOMAIN heap, n)}
      \cup (IF "set" \in kinds
            THEN {Obj("set", q, 0, 0) :
                     q \in {x \in SeqsUpTo({r \in DOMAIN heap :
                                  heap[r].k \in {"none", "str", "scalar", "shape"}},
                                  n) : IsInjective(x)}}
            ELSE {})

\* the attributes add_candidate asks for, and the classes it tells apart
AttrNames == {"vals", "val", "part", "sketch", "wrapped"}

Classes == {"str", "map", "list", "scalar", "other"}

\* add_candidate applied to object o, whose reference is self, has a rule
\* that leads it to o again
Revisits(o, self) ==
    /\ self \in {o.kids[i] : i \in DOMAIN o.kids}
    /\ o.k # "str"
    /\ \/ o.k \in {"map", "list"}
       \/ "vals" \in o.attrs \ o.raises
       \/ "part" \in o.attrs /\ PartOf(o) = self
       \/ "sketch" \in o.attrs /\ SketchOf(o) = self

\* the objects with attributes and at most n values that a script can build
\* from the objects of heap and from the object itself
AccessorObjects(heap, n) ==
    {o \in {Accessor(k, a, x, q) :
                k \in Classes, a \in SUBSET AttrNames,
                x \in SUBSET {"vals", "val"},
                q \in SeqsUpTo(1..(Len(heap) + 1), n)} :
        o.raises \subseteq o.attrs}

\* the objects a script builds: containers in the pipeline, objects with
\* attributes where the rules of add_candidate are examined, without a way
\* back to the object itself unless cycles are
Buildable(heap, d, n) ==
    CASE d = "acc" ->
             {o \in AccessorObjects(heap, n) : ~Revisits(o, Len(heap) + 1)}
      [] d = "cyc" -> AccessorObjects(heap, n)
      [] OTHER -> NewObjects(heap, Kinds(d), n)

\* the messages main writes: [kind, n]
Msg(kind, n) == [kind |-> kind, n |-> n]

Running == 0 - 1

\* the shape main exports: the parts of the normalized result, and the
\* number of its solids that a fusion has merged (0: it is not a fusion)
NoShape == [parts |-> <<>>, merged |-> 0]

\* ------------------------------------------------- manufacturing.py: meshes
\* A mesh is what count_degenerate_faces and cmd_mesh_check read of it:
\*   deg, nondeg  the attributes degenerate_faces and nondegenerate_faces,
\*                [how, sel]:  how  is "absent" (no such attribute), "none"
\*                (its value is None), "raises" (reading the attribute
\*                raises an error other than AttributeError), "value" (its
\*                value is sel), "callable" (calling it returns sel),
\*                "callraises" (calling it raises);
\*   sel          [kind, items]: "idx" a list of face indices, "bool" a
\*                list of Python bools, "bool_" an array of numpy.bool_,
\*                "scalar" a value list() cannot iterate;
\*   faces        [has, n]: len(mesh.faces) is n, or reading it raises;
\*   areas        the attribute area_faces, [how, items]: "absent", "none",
\*                "raises", "scalar" (not iterable) or "value";
\*   an area is [k, v]: "num" the number v * 1e-13, "nan", "inf", or
\*                "bad", a value float() rejects;
\*   is_watertight, is_winding_consistent, euler_number, volume.
NoSelector == [kind |-> "scalar", items |-> <<>>]

Absent == [how |-> "absent", sel |-> NoSelector]

\* 1e-12, in units of 1e-13
AreaEps == 10

Num(v) == [k |-> "num", v |-> v]

\* 0.0, 1e-13, 1e-12, 1.1e-12, 1e-6, -1e-6, nan, inf and the string "x"
AreaValues ==
    {Num(0), Num(1), Num(AreaEps), Num(AreaEps + 1), Num(10000000),
     Num(0 - 10000000),
     [k |-> "nan", v |-> 0], [k |-> "inf", v |-> 0], [k |-> "bad", v |-> 0]}

\* the selectors of at most n entries
Selectors(n) ==
    {NoSelector}
        \cup {[kind |-> "idx", items |-> [i \in 1..k |-> TRUE]] : k \in 0..n}
        \cup {[kind |-> kd, items |-> it] :
                 kd \in {"bool", "bool_"}, it \in SeqsUpTo(BOOLEAN, n)}

\* the attributes degenerate_faces and nondegenerate_faces may be
Signals(n) ==
    {[how |-> h, sel |-> NoSelector] :
         h \in {"absent", "none", "raises", "callraises"}}
        \cup {[how |-> h, sel |-> sl] :
                 h \in {"value", "callable"}, sl \in Selectors(n)}

\* the attribute area_faces may be
AreaLists(n) ==
    {[how |-> h, items |-> <<>>] : h \in {"absent", "none", "raises", "scalar"}}
        \cup {[how |-> "value", items |-> it] : it \in SeqsUpTo(AreaValues, n)}

\* the entries of the selectors and of the list of areas of a mesh
Entries(m) ==
    Len(m.deg.sel.items) + Len(m.nondeg.sel.items) + Len(m.areas.items)

NoMesh ==
    [deg |-> Absent, nondeg |-> Absent, faces |-> [has |-> FALSE, n |-> 0],
     areas |-> [how |-> "absent", items |-> <<>>],
     watertight |-> FALSE, winding |-> FALSE, euler |-> 0, volume |-> 0]

\* the meshes whose selectors and areas have at most n entries together
\* and that have at most n faces
Meshes(n) ==
    {m \in [deg : Signals(n), nondeg : Signals(n),
            faces : {[has |-> FALSE, n |-> 0]}
                        \cup {[has |-> TRUE, n |-> k] : k \in 0..n},
            areas : AreaLists(n),
            watertight : {FALSE}, winding : {FALSE}, euler : {0},
            volume : {0}] : Entries(m) <= n}

\* the result of a call: a value, or an exception that leaves the function
Value(v) == [raised |-> FALSE, value |-> v]

Raised == [raised |-> TRUE, value |-> 0]

NotCalled == [raised |-> FALSE, value |-> 0 - 1]

Max(a, b) == IF a >= b THEN a ELSE b

\* an area of exactly 1e-12 taken as not degenerate
IsDegenerateAreaBelow(a) == a.k \in {"nan", "inf"} \/ (a.k = "num" /\ a.v < AreaEps)

\* (not math.isfinite(val)) or val <= 1e-12, for an area float() accepts
IsDegenerateArea(a) == a.k \in {"nan", "inf"} \/ (a.k = "num" /\ a.v <= AreaEps)

\* the numpy.bool_ entries of a mask, when the test on the name of their
\* type is left out
CountFaceSelectorPythonBoolOnly(sel) ==
    IF sel.kind = "scalar" THEN 0
    ELSE IF sel.items = <<>> THEN 0
    ELSE IF sel.kind = "bool"
         THEN Cardinality({i \in DOMAIN sel.items : sel.items[i]})
         ELSE Len(sel.items)

\* _count_face_selector
CountFaceSelector(sel) ==
    IF sel.kind = "scalar" THEN 0
    ELSE IF sel.items = <<>> THEN 0
    ELSE IF sel.kind \in {"bool", "bool_"}
         THEN Cardinality({i \in DOMAIN sel.items : sel.items[i]})
         ELSE Len(sel.items)

\* count_degenerate_faces, lines 136-153: the areas, then the default
CountByArea(m) ==
    IF m.areas.how = "value"
    THEN Value(Cardinality({i \in DOMAIN m.areas.items :
                               /\ m.areas.items[i].k # "bad"
                               /\ IsDegenerateArea(m.areas.items[i])}))
    ELSE Value(0)

\* the second tier without the test  0 <= nondeg_count <= total
CountByNondegenerateUnchecked(m) ==
    IF m.nondeg.how = "raises" THEN Raised
    ELSE IF m.nondeg.how \in {"value", "callable"} /\ m.faces.has
    THEN Value(m.faces.n - CountFaceSelector(m.nondeg.sel))
    ELSE CountByArea(m)

\* count_degenerate_faces, lines 124-134: nondegenerate_faces and the
\* number of faces
CountByNondegenerate(m) ==
    IF m.nondeg.how = "raises" THEN Raised
    ELSE IF /\ m.nondeg.how \in {"value", "callable"}
            /\ m.faces.has
            /\ CountFaceSelector(m.nondeg.sel) <= m.faces.n
    THEN Value(m.faces.n - CountFaceSelector(m.nondeg.sel))
    ELSE CountByArea(m)

\* count_degenerate_faces
CountDegenerateFaces(m) ==
    IF m.deg.how = "raises" THEN Raised
    ELSE IF m.deg.how \in {"value", "callable"}
    THEN Value(Max(0, CountFaceSelector(m.deg.sel)))
    ELSE CountByNondegenerate(m)

\* ------------------------------------------ manufacturing.py: cmd_mesh_check
\* the meshes cmd_mesh_check builds: trimesh gives them a callable
\* nondegenerate_faces that returns a mask with one entry for each face;
\* degenerate_faces is absent or a property that raises; the volume is in
\* units of 1e-5
CheckedMeshes(n) ==
    {[deg |-> [how |-> h, sel |-> NoSelector],
      nondeg |-> [how |-> "callable", sel |-> [kind |-> "bool_", items |-> it]],
      faces |-> [has |-> TRUE, n |-> Len(it)],
      areas |-> [how |-> "absent", items |-> <<>>],
      watertight |-> wt, winding |-> wd, euler |-> e, volume |-> v] :
         h \in {"absent", "raises"}, it \in SeqsUpTo(BOOLEAN, n),
         wt \in BOOLEAN, wd \in BOOLEAN, e \in {0, 2, 4},
         v \in {0 - 150000, 0 - 2, 0, 123456}}

Abs(x) == IF x < 0 THEN 0 - x ELSE x

\* round(volume, 4) of a volume that is not negative, in units of 1e-4,
\* for a volume whose fifth decimal is not 5
Round4(v) == (v + 5) \div 10

\* cmd_mesh_check without the test of the Euler number
IssuesWithoutEuler(m, degenerate) ==
    (IF ~m.watertight THEN <<Msg("not-watertight", 0)>> ELSE <<>>)
        \o (IF ~m.winding THEN <<Msg("inconsistent-winding", 0)>> ELSE <<>>)
        \o (IF degenerate > 0 THEN <<Msg("degenerate-faces", degenerate)>>
                              ELSE <<>>)
        \o (IF m.watertight /\ m.volume < 0
            THEN <<Msg("negative-volume", 0)>> ELSE <<>>)

\* cmd_mesh_check, lines 229-250: issues
Issues(m, degenerate) ==
    (IF ~m.watertight THEN <<Msg("not-watertight", 0)>> ELSE <<>>)
        \o (IF ~m.winding THEN <<Msg("inconsistent-winding", 0)>> ELSE <<>>)
        \o (IF degenerate > 0 THEN <<Msg("degenerate-faces", degenerate)>>
                              ELSE <<>>)
        \o (IF m.euler # 2 THEN <<Msg("euler-number", m.euler)>> ELSE <<>>)
        \o (IF m.watertight /\ m.volume < 0
            THEN <<Msg("negative-volume", 0)>> ELSE <<>>)

\* cmd_mesh_check, lines 248-264: result_json, without its bounds
MeshReport(m, degenerate) ==
    [watertight |-> m.watertight,
     winding_consistent |-> m.winding,
     degenerate_faces |-> degenerate,
     euler_number |-> m.euler,
     volume |-> IF m.watertight THEN Round4(Abs(m.volume)) ELSE 0,
     triangle_count |-> m.faces.n,
     issues |-> Issues(m, degenerate)]

\* ------------------------------------------------- run_eval.py: execute_code
\* the fields of the report the verdict reads
VerdictFields ==
    {"watertight", "winding_consistent", "degenerate_faces", "euler_number"}

\* the report without the fields  missing
Without(rep, missing) == [k \in (DOMAIN rep) \ missing |-> rep[k]]

\* parsed.get(k, default)
Get(d, k, default) == IF k \in DOMAIN d THEN d[k] ELSE default

\* the value execute_code takes for a missing degenerate_faces
MissingDegenerate == 999999

\* execute_code with 2 as the default of euler_number
ManifoldVerdictEulerPresumed(d) ==
    /\ Get(d, "watertight", FALSE)
    /\ Get(d, "winding_consistent", FALSE)
    /\ Get(d, "degenerate_faces", MissingDegenerate) = 0
    /\ Get(d, "euler_number", 2) = 2

\* execute_code, lines 162-166: manifold
ManifoldVerdict(d) ==
    /\ Get(d, "watertight", FALSE)
    /\ Get(d, "winding_consistent", FALSE)
    /\ Get(d, "degenerate_faces", MissingDegenerate) = 0
    /\ Get(d, "euler_number", 0) = 2

\* ------------------------------------------------ run_eval.py: evaluate_gates
RateKeys ==
    {"first_pass_success_rate", "success_within_max_attempts_rate",
     "manifold_pass_rate"}

\* the summaries: each rate is there or not
Summaries(n) == UNION {[ks -> 0..n] : ks \in SUBSET RateKeys}

\* baseline_summary: None, or a summary
Baselines(n) ==
    {[given |-> FALSE, rates |-> <<>>]}
        \cup {[given |-> TRUE, rates |-> b] : b \in Summaries(n)}

\* the arguments of evaluate_gates
GateArgs(n) ==
    [summary : Summaries(n), baseline_summary : Baselines(n),
     gate_first_pass : 1..n, gate_success_within : 1..n,
     gate_manifold : 1..n, gate_max_drop_pp : 0..1]

Failure(rate, why) == [rate |-> rate, why |-> why]

\* evaluate_gates failing a rate that is equal to its gate
EvaluateGatesInclusive(a) ==
    LET first_pass == Get(a.summary, "first_pass_success_rate", 0)
        within == Get(a.summary, "success_within_max_attempts_rate", 0)
        manifold_ == Get(a.summary, "manifold_pass_rate", 0)
        base == a.baseline_summary.rates
        drop_first == Get(base, "first_pass_success_rate", first_pass)
                          - first_pass
        drop_within == Get(base, "success_within_max_attempts_rate", within)
                           - within
        drop_manifold == Get(base, "manifold_pass_rate", manifold_) - manifold_
    IN  (IF first_pass <= a.gate_first_pass
         THEN <<Failure("first_pass_success_rate", "gate")>> ELSE <<>>)
        \o (IF within <= a.gate_success_within
            THEN <<Failure("success_within_max_attempts_rate", "gate")>>
            ELSE <<>>)
        \o (IF manifold_ <= a.gate_manifold
            THEN <<Failure("manifold_pass_rate", "gate")>> ELSE <<>>)
        \o (IF a.baseline_summary.given /\ DOMAIN base # {}
            THEN (IF drop_first > a.gate_max_drop_pp
                  THEN <<Failure("first_pass_success_rate", "regression")>>
                  ELSE <<>>)
                 \o (IF drop_within > a.gate_max_drop_pp
                     THEN <<Failure("success_within_max_attempts_rate",
                                    "regression")>>
                     ELSE <<>>)
                 \o (IF drop_manifold > a.gate_max_drop_pp
                     THEN <<Failure("manifold_pass_rate", "regression")>>
                     ELSE <<>>)
            ELSE <<>>)

\* evaluate_gates
EvaluateGates(a) ==
    LET first_pass == Get(a.summary, "first_pass_success_rate", 0)
        within == Get(a.summary, "success_within_max_attempts_rate", 0)
        manifold_ == Get(a.summary, "manifold_pass_rate", 0)
        base == a.baseline_summary.rates
        drop_first == Get(base, "first_pass_success_rate", first_pass)
                          - first_pass
        drop_within == Get(base, "success_within_max_attempts_rate", within)
                           - within
        drop_manifold == Get(base, "manifold_pass_rate", manifold_) - manifold_
    IN  (IF first_pass < a.gate_first_pass
         THEN <<Failure("first_pass_success_rate", "gate")>> ELSE <<>>)
        \o (IF within < a.gate_success_within
            THEN <<Failure("success_within_max_attempts_rate", "gate")>>
            ELSE <<>>)
        \o (IF manifold_ < a.gate_manifold
            THEN <<Failure("manifold_pass_rate", "gate")>> ELSE <<>>)
        \o (IF a.baseline_summary.given /\ DOMAIN base # {}
            THEN (IF drop_first > a.gate_max_drop_pp
                  THEN <<Failure("first_pass_success_rate", "regression")>>
                  ELSE <<>>)
                 \o (IF drop_within > a.gate_max_drop_pp
                     THEN <<Failure("success_within_max_attempts_rate",
                                    "regression")>>
                     ELSE <<>>)
                 \o (IF drop_manifold > a.gate_max_drop_pp
                     THEN <<Failure("manifold_pass_rate", "regression")>>
                     ELSE <<>>)
            ELSE <<>>)

\* ---------------------------------------------- manufacturing.py: cmd_orient
\* cmd_orient, lines 290-303
Candidates ==
    <<<<0, 0, 0>>, <<90, 0, 0>>, <<0 - 90, 0, 0>>, <<0, 90, 0>>,
      <<0, 0 - 90, 0>>, <<0, 0, 90>>, <<180, 0, 0>>, <<90, 90, 0>>,
      <<90, 0, 90>>, <<45, 0, 0>>, <<0, 45, 0>>, <<45, 45, 0>>>>

\* height, overhang_pct and base_area of a rotated mesh, in thousandths
Metrics(h, o, b) == [height |-> h, overhang_pct |-> o, base_area |-> b]

\* what trimesh may measure: 10.0/0/4.0 and 8.0/0/0 cost the same, 5.123/0/4.0
\* costs less, 8.0/25.004/0 costs more
MetricChoices ==
    {Metrics(10000, 0, 4000), Metrics(8000, 0, 0), Metrics(5123, 0, 4000),
     Metrics(8000, 25004, 0)}

\* the candidates evaluated so far whose metrics differ from the first's
Varied(ev) == Cardinality({i \in DOMAIN ev : ev[i] # ev[1]})

\* cmd_orient, line 341: score, in units of 0.0005
Score(m) == 2 * m.height + 4 * m.overhang_pct - m.base_area

\* cmd_orient, lines 306-310
BestAtStart ==
    [found |-> FALSE, score |-> 0, candidate |-> <<0, 0, 0>>, height |-> 0,
     overhang_pct |-> 0, base_area |-> 0]

\* a candidate that replaces the best one when its score is the same
IsBetterOrSame(score, b) == ~b.found \/ score <= b.score

\* cmd_orient, line 343: score < best_score, where best_score is inf
\* until a candidate is found
IsBetter(score, b) == ~b.found \/ score < b.score

\* round(x, 2) of a value in thousandths that is not negative, in
\* hundredths, for a value whose third decimal is not 5
Round2(v) == (v + 5) \div 10

\* cmd_orient, lines 350-356: result_json
Orientation(b, n) ==
    [rotation |-> b.candidate,
     height |-> Round2(b.height),
     overhang_pct |-> Round2(b.overhang_pct),
     base_area |-> Round2(b.base_area),
     candidates_evaluated |-> n]

\* ---------------------------------- manufacturing.py: the base of cmd_orient
\* A rotated mesh is [height, faces]: its extent along z and, of every
\* face, up, the height of its centroid above the lowest point of the mesh,
\* nz, the z component of its normal, and its area.  Lengths are in units
\* of 0.0001, normals in thousandths.
Face(up, nz, area) == [up |-> up, nz |-> nz, area |-> area]

\* heights 0, 5.0, 10.0 and 20.0
Heights == {0, 50000, 100000, 200000}

\* centroids on the lowest point, 0.07 and 0.15 above it; normals straight
\* down, at -0.9 and straight up
RotatedFaces ==
    {Face(up, nz, a) : up \in {0, 700, 1500}, nz \in {0 - 1000, 0 - 900, 1000},
                       a \in {1, 2}}

RotatedMeshes(n) ==
    {m \in {[height |-> h, faces |-> q] :
                h \in Heights, q \in SeqsUpTo(RotatedFaces, n)} :
        \A i \in DOMAIN m.faces : m.faces[i].up <= m.height}

\* cmd_orient, line 333: 0.1, the tolerance for a mesh without height
FlatTolerance == 1000

\* cmd_orient, line 335: -0.9
BaseNormal == 0 - 900

\* cmd_orient, line 333: base_tolerance
BaseTolerance(height) ==
    IF height > 0 THEN height \div 100 ELSE FlatTolerance

\* cmd_orient, line 335: base_mask, with z_min the lowest point
BaseMask(m) ==
    {i \in DOMAIN m.faces :
        /\ m.faces[i].up < BaseTolerance(m.height)
        /\ m.faces[i].nz < BaseNormal}

\* np.sum(areas[mask])
RECURSIVE SumAreas(_, _)
SumAreas(faces, mask) ==
    IF mask = {} THEN 0
    ELSE LET i == CHOOSE j \in mask : TRUE
         IN  faces[i].area + SumAreas(faces, mask \ {i})

\* cmd_orient, lines 331-337
BaseContact(m) ==
    [tolerance |-> BaseTolerance(m.height),
     area |-> SumAreas(m.faces, BaseMask(m))]

\* ------------------------------------------- run_eval.py: the attempt loop
\* main, line 318: range(1, max(1, args.max_attempts) + 1)
AttemptLimit(max_attempts) == Max(1, max_attempts)

\* main, lines 311-315: the variables of a case before its loop, with what
\* the loop depends on: --max-attempts, whether --generator-cmd is given
\* and whether the case has a reference_code.  outcomes is what each
\* attempt has come to.
StartOfCase(max_attempts, generator, reference) ==
    [max_attempts |-> max_attempts, generator |-> generator,
     reference |-> reference, attempts_used |-> 0, outcomes |-> <<>>,
     first_pass_success |-> FALSE, success_within |-> FALSE,
     manifold_pass |-> FALSE, last_error |-> "none"]

\* what an attempt may come to: the generator fails ("generator"), there is
\* neither a generator nor a reference_code ("no-code"), or execute_code
\* returns success=False ("failed"), success=True and manifold=False
\* ("non-manifold"), or success=True and manifold=True ("pass")
Outcomes(a) ==
    IF a.generator THEN {"generator", "failed", "non-manifold", "pass"}
    ELSE IF a.reference THEN {"failed", "non-manifold", "pass"}
    ELSE {"no-code"}

\* main, lines 318-347: the body of the loop, for an attempt that comes to o
AttemptBody(a, o) ==
    LET n == a.attempts_used + 1
        b == [a EXCEPT !.attempts_used = n, !.outcomes = Append(@, o)]
    IN  IF o = "pass"
        THEN [b EXCEPT !.first_pass_success = (n = 1) \/ @,
                       !.success_within = TRUE,
                       !.manifold_pass = TRUE,
                       !.last_error = "none"]
        ELSE [b EXCEPT !.last_error = o]

\* the loop is left by break
Breaks(o) == o \in {"no-code", "pass"}

NoRotated == <<>>

NoBase == <<>>

NoAttempt == <<>>

NoCaseResult == <<>>

NoReport == <<>>

NoGateArgs == <<>>

NoOrientation == <<>>

\* ---------------------------------------------------------------- the state
VARIABLES
    domain,     \* what the environment writes, see Templates
    input,      \* the input file: [lines, nl]
    heap,       \* the objects the script builds
    pc,         \* the position of main
    code,       \* main's variable  code
    cache,      \* _VALID_NAMES_CACHE
    stripped,   \* what strip_unknown_calls returned: [code, removed]
    again,      \* what sanitizing the sanitized code returns: [code, removed]
    fails,      \* the lines of code whose fillet operation fails
    flag,       \* the value of the condition of the  if  headers
    run,        \* the outcome of exec(code, namespace)
    root,       \* the object bound to  result  in the namespace, 0 if none
    norm,       \* the outcome of _normalize_result_for_export
    normalized, \* main's variable  normalized
    count,      \* _ensure_single_solid: count
    fuses,      \* _ensure_single_solid: the outcomes of the fusions so far
    exported,   \* the shape written to the output file
    log,        \* the messages written to stderr and stdout
    exitCode,   \* the exit status of the process, Running until it ends
    stages,     \* the stages of the pipeline that have started, in order
    solids,     \* the number of solids of the shape held in  normalized
    mesh,       \* manufacturing.py: the mesh
    degen,      \* the outcome of count_degenerate_faces(mesh)
    report,     \* the report cmd_mesh_check prints
    parsed,     \* run_eval.py, execute_code: the report it has read
    manifold,   \* execute_code: the verdict
    gateArgs,   \* the arguments of evaluate_gates
    failures,   \* what evaluate_gates returns
    evaluated,  \* cmd_orient: the metrics of the candidates evaluated
    best,       \* cmd_orient: best_score, best_candidate, best_height, ...
    oriented,   \* the report cmd_orient prints
    rotated,    \* the rotated mesh of a candidate: [height, faces]
    base,       \* its faces in contact with the bed: [tolerance, area]
    attempt,    \* the attempt loop of a case of run_eval.main
    caseResult  \* the CaseResult of the case

sanVars == <<code, cache, stripped, again>>

runVars == <<fails, flag, run, root>>

outVars == <<norm, normalized, count, fuses, exported, exitCode, stages>>

toolVars == <<mesh, degen, report, parsed, manifold, gateArgs, failures,
              evaluated, best, oriented>>

caseVars == <<rotated, base, attempt, caseResult>>

vars == <<domain, input, heap, pc, sanVars, runVars, outVars, log, solids,
          toolVars, caseVars>>

InitProgram ==
    /\ pc = "write"
    /\ rotated = NoRotated
    /\ base = NoBase
    /\ attempt = NoAttempt
    /\ caseResult = NoCaseResult
    /\ heap = Pool
    /\ code = EmptyText
    /\ cache = NoCache
    /\ stripped = NoStrip
    /\ again = NoStrip
    /\ fails = {}
    /\ flag = TRUE
    /\ run = NoRun
    /\ root = 0
    /\ norm = NoNorm
    /\ normalized = NoShape
    /\ count = 0
    /\ fuses = <<>>
    /\ exported = NoShape
    /\ log = <<>>
    /\ exitCode = Running
    /\ stages = <<>>
    /\ solids = 0

\* no tool of manufacturing.py or of run_eval.py has run
InitTools ==
    /\ mesh = NoMesh
    /\ degen = NotCalled
    /\ report = NoReport
    /\ parsed = NoReport
    /\ manifold = FALSE
    /\ gateArgs = NoGateArgs
    /\ failures = <<>>
    /\ evaluated = <<>>
    /\ best = BestAtStart
    /\ oriented = NoOrientation

\* ---------------------------------------------------------- the environment
\* the input file is written, one line after the other
Write ==
    /\ pc = "write"
    /\ Len(input.lines) < MaxLen(domain)
    /\ \E l \in LinesAfter(input.lines, Templates(domain)) :
           input' = [input EXCEPT !.lines = Append(@, l)]
    /\ UNCHANGED <<toolVars, caseVars, solids, domain, heap, pc, sanVars, runVars, outVars, log>>

\* one more object that the script will build; it holds the object built
\* before it, so that every object is part of the one built last
NewObject ==
    /\ pc = "write"
    /\ Len(heap) < Len(Pool) + MaxObjs(domain)
    /\ \E o \in Buildable(heap, domain,
                            MaxRefsOf(domain) - RefsIn(heap)) :
           /\ Len(heap) > Len(Pool) => Len(heap) \in {o.kids[i] : i \in DOMAIN o.kids}
           /\ heap' = Append(heap, o)
    /\ UNCHANGED <<toolVars, caseVars, solids, domain, input, pc, sanVars, runVars, outVars, log>>

\* --------------------------------------------------------------------- main
\* main, lines 469-478: the arguments are wrong or the input file is missing
BadInvocation ==
    /\ pc = "write"
    /\ \E k \in {"usage", "not-found"} : log' = Append(log, Msg(k, 0))
    /\ exitCode' = 1
    /\ pc' = "exit"
    /\ UNCHANGED <<toolVars, caseVars, solids, domain, input, heap, sanVars, runVars, norm, normalized,
                   count, fuses, exported, stages>>

\* main: code = f.read()
ReadCode ==
    /\ pc = "write"
    /\ code' = Canon(input)
    /\ pc' = "read"
    /\ UNCHANGED <<toolVars, caseVars, solids, domain, input, heap, cache, stripped, again, runVars,
                   outVars, log>>

\* the messages strip_unknown_calls prints, one for each name it returns
RECURSIVE StrippedMsgs(_)
StrippedMsgs(removed) ==
    IF removed = <<>> THEN <<>>
    ELSE <<Msg("validator-stripped", 0)>> \o StrippedMsgs(Tail(removed))

\* main: code, _stripped = strip_unknown_calls(code)
Strip ==
    /\ pc = "read"
    /\ cache' = (IF ParseOK(SplitLines(code)) THEN GetValidNames(cache)
                 ELSE cache)
    /\ stripped' = StripUnknownCalls(code, GetValidNames(cache).names)
    /\ code' = stripped'.code
    /\ log' = log \o StrippedMsgs(stripped'.removed)
    /\ stages' = Append(stages, "strip")
    /\ pc' = "stripped"
    /\ UNCHANGED <<toolVars, caseVars, solids, domain, input, heap, again, runVars, norm, normalized,
                   count, fuses, exported, exitCode>>

\* main: code = guard_fillet_chamfer(code)
Guard ==
    /\ pc = "stripped"
    /\ code' = GuardFilletChamfer(code)
    /\ stages' = Append(stages, "guard")
    /\ pc' = "guarded"
    /\ UNCHANGED <<toolVars, caseVars, solids, domain, input, heap, cache, stripped, again, runVars, norm,
                   normalized, count, fuses, exported, exitCode, log>>

FilletLines(lines) == {i \in DOMAIN lines : lines[i].t = "fillet"}

HasIf(lines) == \E i \in DOMAIN lines : lines[i].t = "if"

\* the objects a script may bind to  result : the object it built last, or
\* an object of Pool when it built none
Results(h) == IF Len(h) > Len(Pool) THEN {Len(h)} ELSE DOMAIN h

\* main with a retry: a script that raises is sanitized and run again
ExecScriptWithRetry ==
    /\ pc = "guarded"
    /\ \E fs \in SUBSET FilletLines(code.lines),
          fl \in (IF HasIf(code.lines) THEN BOOLEAN ELSE {TRUE}),
          r \in Results(heap) :
           LET x == ExecCode(code, fs, fl) IN
           /\ fails' = fs
           /\ flag' = fl
           /\ run' = x
           /\ root' = (IF x.ns.result # <<>> THEN r ELSE 0)
           /\ pc' = (IF x.status = "ok" THEN "executed" ELSE "read")
           /\ UNCHANGED <<log, exitCode>>
    /\ stages' = Append(stages, "exec")
    /\ UNCHANGED <<toolVars, caseVars, solids, domain, input, heap, sanVars, norm, normalized, count,
                   fuses, exported>>

\* main, lines 497-501: exec(code, namespace), in an environment where the
\* fillet operations of the lines fs fail, the conditions have the value fl
\* and the value the script binds to  result  is the object r
ExecScript ==
    /\ pc = "guarded"
    /\ \E fs \in SUBSET FilletLines(code.lines),
          fl \in (IF HasIf(code.lines) THEN BOOLEAN ELSE {TRUE}),
          r \in Results(heap) :
           LET x == ExecCode(code, fs, fl) IN
           /\ fails' = fs
           /\ flag' = fl
           /\ run' = x
           /\ root' = (IF x.ns.result # <<>> THEN r ELSE 0)
           /\ IF x.status = "ok"
              THEN pc' = "executed" /\ UNCHANGED <<log, exitCode>>
              ELSE IF x.status = "Exception"
              THEN /\ log' = Append(log, Msg("traceback", 0))
                   /\ exitCode' = 2
                   /\ pc' = "exit"
              ELSE \* SystemExit is no Exception: it leaves main, and the
                   \* process ends with the status of  exit() , which is 0
                   /\ exitCode' = 0
                   /\ pc' = "exit"
                   /\ UNCHANGED log
    /\ stages' = Append(stages, "exec")
    /\ UNCHANGED <<toolVars, caseVars, solids, domain, input, heap, sanVars, norm, normalized, count,
                   fuses, exported>>

\* main, lines 504-507: result = namespace.get("result")
GetResult ==
    /\ pc = "executed"
    /\ IF root = 0 \/ heap[root].k = "none"
       THEN /\ log' = Append(log, Msg("no-result", 0))
            /\ exitCode' = 3
            /\ pc' = "exit"
       ELSE /\ pc' = "result"
            /\ UNCHANGED <<log, exitCode>>
    /\ UNCHANGED <<toolVars, caseVars, solids, domain, input, heap, sanVars, runVars, norm, normalized,
                   count, fuses, exported, stages>>

\* main, line 511: normalized = _normalize_result_for_export(result); what
\* it raises is caught at line 519.  Compound(children=exportables), which
\* it calls for more than one part, may raise too.
Normalize ==
    /\ pc = "result"
    /\ LET x == NormalizeResultForExport(heap, root)
       IN  \E built \in (IF Len(x.parts) > 1 THEN BOOLEAN ELSE {TRUE}) :
               norm' = IF built THEN x
                       ELSE [status |-> "compound-error", parts |-> <<>>,
                             examples |-> <<>>]
    /\ stages' = Append(stages, "normalize")
    /\ IF norm'.status = "ok"
       THEN /\ normalized' = [parts |-> norm'.parts, merged |-> 0]
            /\ pc' = "normalized"
            /\ UNCHANGED <<log, exitCode>>
       ELSE /\ log' = Append(log, Msg("traceback", 0))
            /\ exitCode' = 4
            /\ pc' = "exit"
            /\ UNCHANGED normalized
    /\ UNCHANGED <<toolVars, caseVars, solids, domain, input, heap, sanVars, runVars, count, fuses,
                   exported>>


\* _ensure_single_solid passing a shape of two solids through
CountSolidsUpToTwo ==
    /\ pc = "normalized"
    /\ stages' = Append(stages, "ensure")
    /\ \E n \in 0..MaxSolids : \E c \in {Running, n} :
           /\ solids' = n
           /\ IF c = Running
              THEN /\ log' = Append(log, Msg("warning-solid-check", 0))
                   /\ pc' = "ensured"
                   /\ UNCHANGED count
              ELSE IF c <= 2
              THEN /\ pc' = "ensured"
                   /\ UNCHANGED <<count, log>>
              ELSE /\ count' = c
                   /\ pc' = "fusing"
                   /\ UNCHANGED log
    /\ UNCHANGED <<toolVars, caseVars, domain, input, heap, sanVars, runVars, norm, normalized,
                   fuses, exported, exitCode>>

\* _ensure_single_solid, lines 141-144: count = _count_solids(normalized);
\* n is the number of solids of the normalized shape, c the number
\* _count_solids returns, Running when it raises
CountSolids ==
    /\ pc = "normalized"
    /\ stages' = Append(stages, "ensure")
    /\ \E n \in 0..MaxSolids : \E c \in {Running, n} :
           /\ solids' = n
           /\ IF c = Running
              THEN /\ log' = Append(log, Msg("warning-solid-check", 0))
                   /\ pc' = "ensured"
                   /\ UNCHANGED count
              ELSE IF c <= 1
              THEN /\ pc' = "ensured"
                   /\ UNCHANGED <<count, log>>
              ELSE /\ count' = c
                   /\ pc' = "fusing"
                   /\ UNCHANGED log
    /\ UNCHANGED <<toolVars, caseVars, domain, input, heap, sanVars, runVars, norm, normalized,
                   fuses, exported, exitCode>>

\* the loop of _ensure_single_solid going on after a fusion that failed
FuseStepIgnoringFailure ==
    /\ pc = "fusing"
    /\ \E o \in {"done", "failed", "raises"} :
           /\ fuses' = Append(fuses, o)
           /\ IF o = "raises"
              THEN /\ log' = Append(log, Msg("warning-solid-check", 0))
                   /\ pc' = "ensured"
              ELSE /\ pc' = (IF Len(fuses') = count - 1 THEN "fused"
                             ELSE "fusing")
                   /\ UNCHANGED log
    /\ UNCHANGED <<toolVars, caseVars, solids, domain, input, heap, sanVars, runVars, norm, normalized,
                   count, exported, stages, exitCode>>

\* _ensure_single_solid, lines 159-168: one turn of the loop over solids[1:];
\* the fusion is done, reports failure (IsDone() is false) or raises
FuseStep ==
    /\ pc = "fusing"
    /\ \E o \in {"done", "failed", "raises"} :
           /\ fuses' = Append(fuses, o)
           /\ CASE o = "done" ->
                       /\ pc' = (IF Len(fuses') = count - 1 THEN "fused"
                                 ELSE "fusing")
                       /\ UNCHANGED <<log, exitCode>>
                [] o = "failed" ->
                       /\ log' = Append(log, Msg("split-body-fuse-failed", count))
                       /\ exitCode' = 5
                       /\ pc' = "exit"
                [] o = "raises" ->
                       /\ log' = Append(log, Msg("warning-solid-check", 0))
                       /\ pc' = "ensured"
                       /\ UNCHANGED exitCode
    /\ UNCHANGED <<toolVars, caseVars, solids, domain, input, heap, sanVars, runVars, norm, normalized,
                   count, exported, stages>>

\* _ensure_single_solid returning the fused shape whatever its solids
RecountAcceptingPieces ==
    /\ pc = "fused"
    /\ \E c \in {Running} \cup 0..MaxSolids :
           IF c = Running
           THEN /\ log' = Append(log, Msg("warning-solid-check", 0))
                /\ pc' = "ensured"
                /\ UNCHANGED <<normalized, solids, exitCode>>
           ELSE IF c >= 1
           THEN /\ log' = Append(log, Msg("fused", count))
                /\ normalized' = [normalized EXCEPT !.merged = count]
                /\ solids' = c
                /\ pc' = "ensured"
                /\ UNCHANGED exitCode
           ELSE /\ log' = Append(log, Msg("split-body-after-fuse", count))
                /\ exitCode' = 5
                /\ pc' = "exit"
                /\ UNCHANGED <<normalized, solids>>
    /\ UNCHANGED <<toolVars, caseVars, domain, input, heap, sanVars, runVars, norm, count, fuses,
                   exported, stages>>

\* _ensure_single_solid returning the shape fused so far when the count of
\* its solids raises
RecountKeepingFused ==
    /\ pc = "fused"
    /\ \E c \in {Running} \cup 0..MaxSolids :
           IF c = Running
           THEN /\ log' = Append(log, Msg("warning-solid-check", 0))
                /\ normalized' = [normalized EXCEPT !.merged = count]
                /\ pc' = "ensured"
                /\ UNCHANGED <<solids, exitCode>>
           ELSE IF c = 1
           THEN /\ log' = Append(log, Msg("fused", count))
                /\ normalized' = [normalized EXCEPT !.merged = count]
                /\ solids' = c
                /\ pc' = "ensured"
                /\ UNCHANGED exitCode
           ELSE /\ log' = Append(log, Msg("split-body-after-fuse", count))
                /\ exitCode' = 5
                /\ pc' = "exit"
                /\ UNCHANGED <<normalized, solids>>
    /\ UNCHANGED <<toolVars, caseVars, domain, input, heap, sanVars, runVars, norm, count, fuses,
                   exported, stages>>

\* _ensure_single_solid, lines 170-180: fused_shape = Solid(fused) and
\* _count_solids(fused_shape); c is the number of solids of the fused
\* shape, Running when one of the two calls raises
Recount ==
    /\ pc = "fused"
    /\ \E c \in {Running} \cup 0..MaxSolids :
           IF c = Running
           THEN /\ log' = Append(log, Msg("warning-solid-check", 0))
                /\ pc' = "ensured"
                /\ UNCHANGED <<normalized, solids, exitCode>>
           ELSE IF c = 1
           THEN /\ log' = Append(log, Msg("fused", count))
                /\ normalized' = [normalized EXCEPT !.merged = count]
                /\ solids' = c
                /\ pc' = "ensured"
                /\ UNCHANGED exitCode
           ELSE /\ log' = Append(log, Msg("split-body-after-fuse", count))
                /\ exitCode' = 5
                /\ pc' = "exit"
                /\ UNCHANGED <<normalized, solids>>
    /\ UNCHANGED <<toolVars, caseVars, domain, input, heap, sanVars, runVars, norm, count, fuses,
                   exported, stages>>

\* main, lines 513-521: export_step or export_stl writes normalized, or
\* raises
Export ==
    /\ pc = "ensured"
    /\ stages' = Append(stages, "export")
    /\ \E ok \in BOOLEAN :
           IF ok
           THEN /\ exported' = normalized
                /\ pc' = "exported"
                /\ UNCHANGED <<log, exitCode>>
           ELSE /\ log' = Append(log, Msg("traceback", 0))
                /\ exitCode' = 4
                /\ pc' = "exit"
                /\ UNCHANGED exported
    /\ UNCHANGED <<toolVars, caseVars, solids, domain, input, heap, sanVars, runVars, norm, normalized,
                   count, fuses>>

\* main, lines 524-531: the topology sidecar is written, or a warning
Topology ==
    /\ pc = "exported"
    /\ \E k \in {"topology", "warning-topology"} : log' = Append(log, Msg(k, 0))
    /\ pc' = "sidecar"
    /\ UNCHANGED <<toolVars, caseVars, solids, domain, input, heap, sanVars, runVars, outVars>>

\* main, line 533: print(f"Exported to {output_file}"), and main returns
Finish ==
    /\ pc = "sidecar"
    /\ log' = Append(log, Msg("exported", 0))
    /\ exitCode' = 0
    /\ pc' = "done"
    /\ UNCHANGED <<toolVars, caseVars, solids, domain, input, heap, sanVars, runVars, norm, normalized,
                   count, fuses, exported, stages>>

\* ---------------------------------------------------------- manufacturing.py
\* a call of count_degenerate_faces(mesh)
CountDegenerate ==
    /\ domain = "mesh"
    /\ pc = "write"
    /\ degen' = CountDegenerateFaces(mesh)
    /\ pc' = "counted"
    /\ UNCHANGED <<mesh, report, parsed, manifold, gateArgs, failures,
                   evaluated, best, oriented>>
    /\ UNCHANGED <<caseVars, solids, domain, input, heap, sanVars, runVars, outVars, log>>

\* cmd_mesh_check, lines 225-265, on the mesh it has built: the report is
\* printed, unless count_degenerate_faces raises and the process ends with
\* a traceback
MeshCheck ==
    /\ domain = "report"
    /\ pc = "write"
    /\ degen' = CountDegenerateFaces(mesh)
    /\ IF degen'.raised
       THEN /\ pc' = "exit"
            /\ exitCode' = 1
            /\ log' = Append(log, Msg("traceback", 0))
            /\ UNCHANGED report
       ELSE /\ pc' = "checked"
            /\ exitCode' = 0
            /\ report' = MeshReport(mesh, degen'.value)
            /\ UNCHANGED log
    /\ UNCHANGED <<mesh, parsed, manifold, gateArgs, failures, evaluated, best,
                   oriented>>
    /\ UNCHANGED <<caseVars, solids, domain, input, heap, sanVars, runVars, norm,
                   normalized, count, fuses, exported, stages>>

\* cmd_orient, lines 312-348: one turn of the loop over the candidates;
\* m is what trimesh measures of the rotated mesh
Evaluate ==
    /\ domain = "orient"
    /\ pc = "write"
    /\ Len(evaluated) < Len(Candidates)
    /\ \E m \in MetricChoices :
           /\ (evaluated # <<>> /\ m # evaluated[1]) =>
                  Varied(evaluated) < MaxVaried
           /\ evaluated' = Append(evaluated, m)
           /\ best' = IF IsBetter(Score(m), best)
                      THEN [found |-> TRUE,
                            score |-> Score(m),
                            candidate |-> Candidates[Len(evaluated) + 1],
                            height |-> m.height,
                            overhang_pct |-> m.overhang_pct,
                            base_area |-> m.base_area]
                      ELSE best
    /\ UNCHANGED <<mesh, degen, report, parsed, manifold, gateArgs, failures,
                   oriented>>
    /\ UNCHANGED <<caseVars, solids, domain, input, heap, pc, sanVars, runVars, outVars,
                   log>>

\* cmd_orient, lines 313-320: the mesh is rotated for a candidate
Rotate ==
    /\ domain = "base"
    /\ pc = "write"
    /\ \E m \in RotatedMeshes(MaxFaces) : rotated' = m
    /\ pc' = "rotated"
    /\ UNCHANGED <<base, attempt, caseResult>>
    /\ UNCHANGED <<toolVars, solids, domain, input, heap, sanVars, runVars,
                   outVars, log>>

\* cmd_orient, lines 331-337: base_area
MeasureBase ==
    /\ domain = "base"
    /\ pc = "rotated"
    /\ base' = BaseContact(rotated)
    /\ pc' = "measured"
    /\ UNCHANGED <<rotated, attempt, caseResult>>
    /\ UNCHANGED <<toolVars, solids, domain, input, heap, sanVars, runVars,
                   outVars, log>>

\* cmd_orient, lines 350-357: the report is printed
PrintOrientation ==
    /\ domain = "orient"
    /\ pc = "write"
    /\ Len(evaluated) = Len(Candidates)
    /\ oriented' = Orientation(best, Len(Candidates))
    /\ pc' = "oriented"
    /\ UNCHANGED <<mesh, degen, report, parsed, manifold, gateArgs, failures,
                   evaluated, best>>
    /\ UNCHANGED <<caseVars, solids, domain, input, heap, sanVars, runVars, outVars, log>>

\* ------------------------------------------------------------- run_eval.py
\* execute_code, lines 139-173, after the mesh check has ended: exit status
\* other than 0 gives manifold=False; otherwise the report is read and the
\* verdict derived.  The tool that was run may be one that does not print
\* every field.
ExecuteCode ==
    /\ domain = "report"
    /\ pc \in {"checked", "exit"}
    /\ pc' = "judged"
    /\ IF exitCode # 0
       THEN /\ manifold' = FALSE
            /\ UNCHANGED parsed
       ELSE \E missing \in SUBSET VerdictFields :
                /\ parsed' = Without(report, missing)
                /\ manifold' = ManifoldVerdict(parsed')
    /\ UNCHANGED <<mesh, degen, report, gateArgs, failures, evaluated, best,
                   oriented>>
    /\ UNCHANGED <<caseVars, solids, domain, input, heap, sanVars, runVars, outVars, log>>

\* a call of evaluate_gates
Gate ==
    /\ domain = "gates"
    /\ pc = "write"
    /\ failures' = EvaluateGates(gateArgs)
    /\ pc' = "gated"
    /\ UNCHANGED <<mesh, degen, report, parsed, manifold, gateArgs, evaluated,
                   best, oriented>>
    /\ UNCHANGED <<caseVars, solids, domain, input, heap, sanVars, runVars, outVars, log>>

\* main, lines 311-315: a case with a prompt is taken up
StartCase ==
    /\ domain = "attempts"
    /\ pc = "write"
    /\ \E m \in (0 - 1)..MaxAttempts, g \in BOOLEAN, r \in BOOLEAN :
           attempt' = StartOfCase(m, g, r)
    /\ pc' = "loop"
    /\ UNCHANGED <<rotated, base, caseResult>>
    /\ UNCHANGED <<toolVars, solids, domain, input, heap, sanVars, runVars,
                   outVars, log>>

\* the loop of main going on after an attempt that passes
AttemptWithoutBreak ==
    /\ domain = "attempts"
    /\ pc = "loop"
    /\ \E o \in Outcomes(attempt) :
           /\ attempt' = AttemptBody(attempt, o)
           /\ pc' = IF o = "no-code"
                       \/ attempt'.attempts_used
                              = AttemptLimit(attempt.max_attempts)
                    THEN "left" ELSE "loop"
    /\ UNCHANGED <<rotated, base, caseResult>>
    /\ UNCHANGED <<toolVars, solids, domain, input, heap, sanVars, runVars,
                   outVars, log>>

\* main, lines 318-347: one turn of the loop over the attempts; the loop is
\* left by break or when the range is exhausted
Attempt ==
    /\ domain = "attempts"
    /\ pc = "loop"
    /\ \E o \in Outcomes(attempt) :
           /\ attempt' = AttemptBody(attempt, o)
           /\ pc' = IF Breaks(o)
                       \/ attempt'.attempts_used
                              = AttemptLimit(attempt.max_attempts)
                    THEN "left" ELSE "loop"
    /\ UNCHANGED <<rotated, base, caseResult>>
    /\ UNCHANGED <<toolVars, solids, domain, input, heap, sanVars, runVars,
                   outVars, log>>

\* main, lines 351-361: the CaseResult of the case
RecordCase ==
    /\ domain = "attempts"
    /\ pc = "left"
    /\ caseResult' =
           [attempts |-> attempt.attempts_used,
            first_pass_success |-> attempt.first_pass_success,
            success_within_max_attempts |-> attempt.success_within,
            manifold_pass |-> attempt.manifold_pass,
            error |-> attempt.last_error]
    /\ pc' = "recorded"
    /\ UNCHANGED <<rotated, base, attempt>>
    /\ UNCHANGED <<toolVars, solids, domain, input, heap, sanVars, runVars,
                   outVars, log>>

\* ----------------------------------------------------------- other callers
\* the sanitizer of main: strip_unknown_calls, then guard_fillet_chamfer
Sanitize(text, valid) ==
    LET s == StripUnknownCalls(text, valid)
    IN  [code |-> GuardFilletChamfer(s.code), removed |-> s.removed]

\* the sanitized code is sanitized again
ReSanitize ==
    /\ pc = "guarded"
    /\ cache' = (IF ParseOK(SplitLines(code)) THEN GetValidNames(cache)
                 ELSE cache)
    /\ again' = Sanitize(code, GetValidNames(cache).names)
    /\ pc' = "resanitized"
    /\ UNCHANGED <<toolVars, caseVars, solids, domain, input, heap, code, stripped, runVars,
                   outVars, log>>

\* the process goes on to sanitize another script
NextScript ==
    /\ domain = "reg"
    /\ pc = "stripped"
    /\ Len(stages) < MaxCalls
    /\ input' = [lines |-> <<>>, nl |-> TRUE]
    /\ pc' = "write"
    /\ UNCHANGED <<toolVars, caseVars, solids, domain, heap, sanVars, runVars,
                   outVars, log>>

\* a script has run to its end and has bound  result  to the object r
BindResult ==
    /\ pc = "write"
    /\ \E r \in Results(heap) : root' = r
    /\ run' = [status |-> "ok", ns |-> [result |-> <<"Box">>, helper |-> FALSE],
               at |-> 0]
    /\ pc' = "executed"
    /\ UNCHANGED <<toolVars, caseVars, solids, domain, input, heap, sanVars, fails, flag, outVars, log>>

\* --------------------------------------------------------- specifications
\* Spec: one run of main
Init ==
    /\ InitProgram
    /\ InitTools
    /\ domain = "main"
    /\ input = [lines |-> <<>>, nl |-> TRUE]

Next ==
    \/ Write
    \/ NewObject
    \/ BadInvocation
    \/ ReadCode
    \/ Strip
    \/ Guard
    \/ ExecScript
    \/ GetResult
    \/ Normalize
    \/ CountSolids
    \/ FuseStep
    \/ Recount
    \/ Export
    \/ Topology
    \/ Finish

Spec == Init /\ [][Next]_vars

\* SpecSan: the sanitizer of main, and the sanitizer applied to its output
InitSan ==
    /\ InitProgram
    /\ InitTools
    /\ domain = "san"
    /\ \E b \in BOOLEAN : input = [lines |-> <<>>, nl |-> b]

NextSan == Write \/ ReadCode \/ Strip \/ Guard \/ ReSanitize

SpecSan == InitSan /\ [][NextSan]_vars

\* SpecRegistry: strip_unknown_calls called on one script after the other
InitRegistry ==
    /\ InitProgram
    /\ InitTools
    /\ domain = "reg"
    /\ input = [lines |-> <<>>, nl |-> TRUE]

NextRegistry == Write \/ ReadCode \/ Strip \/ NextScript

SpecRegistry == InitRegistry /\ [][NextRegistry]_vars

\* SpecRun: the sanitizer of main and the execution of the sanitized script
InitRun ==
    /\ InitProgram
    /\ InitTools
    /\ domain = "run"
    /\ input = [lines |-> <<>>, nl |-> TRUE]

NextRun == Write \/ ReadCode \/ Strip \/ Guard \/ ExecScript

SpecRun == InitRun /\ [][NextRun]_vars

\* SpecNorm: the normalization of the value a script has bound to  result
InitNorm ==
    /\ InitProgram
    /\ InitTools
    /\ domain = "norm"
    /\ input = [lines |-> <<>>, nl |-> TRUE]

NextNorm == NewObject \/ BindResult \/ GetResult \/ Normalize

SpecNorm == InitNorm /\ [][NextNorm]_vars

\* SpecAccessors: the normalization of an object with attributes, which
\* no rule of add_candidate leads back to
InitAccessors ==
    /\ InitProgram
    /\ InitTools
    /\ domain = "acc"
    /\ input = [lines |-> <<>>, nl |-> TRUE]

SpecAccessors == InitAccessors /\ [][NextNorm]_vars

\* SpecCycles: the normalization of an object with attributes that may hold
\* itself
InitCycles ==
    /\ InitProgram
    /\ InitTools
    /\ domain = "cyc"
    /\ input = [lines |-> <<>>, nl |-> TRUE]

SpecCycles == InitCycles /\ [][NextNorm]_vars

\* SpecMesh: count_degenerate_faces applied to a mesh
InitMesh ==
    /\ InitProgram
    /\ domain = "mesh"
    /\ input = [lines |-> <<>>, nl |-> TRUE]
    /\ mesh \in Meshes(MaxFaces)
    /\ degen = NotCalled
    /\ report = NoReport
    /\ parsed = NoReport
    /\ manifold = FALSE
    /\ gateArgs = NoGateArgs
    /\ failures = <<>>
    /\ evaluated = <<>>
    /\ best = BestAtStart
    /\ oriented = NoOrientation

NextMesh == CountDegenerate

SpecMesh == InitMesh /\ [][NextMesh]_vars

\* SpecReport: cmd_mesh_check on a mesh, and the verdict execute_code
\* derives from what it prints
InitReport ==
    /\ InitProgram
    /\ domain = "report"
    /\ input = [lines |-> <<>>, nl |-> TRUE]
    /\ mesh \in CheckedMeshes(MaxFaces)
    /\ degen = NotCalled
    /\ report = NoReport
    /\ parsed = NoReport
    /\ manifold = FALSE
    /\ gateArgs = NoGateArgs
    /\ failures = <<>>
    /\ evaluated = <<>>
    /\ best = BestAtStart
    /\ oriented = NoOrientation

NextReport == MeshCheck \/ ExecuteCode

SpecReport == InitReport /\ [][NextReport]_vars

\* SpecGates: evaluate_gates applied to a summary
InitGates ==
    /\ InitProgram
    /\ domain = "gates"
    /\ input = [lines |-> <<>>, nl |-> TRUE]
    /\ mesh = NoMesh
    /\ degen = NotCalled
    /\ report = NoReport
    /\ parsed = NoReport
    /\ manifold = FALSE
    /\ gateArgs \in GateArgs(MaxRate)
    /\ failures = <<>>
    /\ evaluated = <<>>
    /\ best = BestAtStart
    /\ oriented = NoOrientation

NextGates == Gate

SpecGates == InitGates /\ [][NextGates]_vars

\* SpecOrient: the search of cmd_orient over the candidate rotations
InitOrient ==
    /\ InitProgram
    /\ InitTools
    /\ domain = "orient"
    /\ input = [lines |-> <<>>, nl |-> TRUE]

NextOrient == Evaluate \/ PrintOrientation

SpecOrient == InitOrient /\ [][NextOrient]_vars

\* SpecAttempts: the attempts of one case of run_eval.main
InitAttempts ==
    /\ InitProgram
    /\ InitTools
    /\ domain = "attempts"
    /\ input = [lines |-> <<>>, nl |-> TRUE]

NextAttempts == StartCase \/ Attempt \/ RecordCase

SpecAttempts == InitAttempts /\ [][NextAttempts]_vars

\* SpecBase: the base area cmd_orient measures of a rotated mesh
InitBase ==
    /\ InitProgram
    /\ InitTools
    /\ domain = "base"
    /\ input = [lines |-> <<>>, nl |-> TRUE]

NextBase == Rotate \/ MeasureBase

SpecBase == InitBase /\ [][NextBase]_vars

\* ================================================================= claims
\* the text main has read
Source == Canon(input)

Range(seq) == {seq[i] : i \in DOMAIN seq}

\* the names the text binds
DefinedInSource == UNION {AssignTargets(Source.lines[i]) : i \in DOMAIN Source.lines}

\* the lines of a text without the empty lines at its end
RECURSIVE TrimEmpty(_)
TrimEmpty(lines) ==
    IF lines # <<>> /\ lines[Len(lines)] = EmptyLine
    THEN TrimEmpty(SubSeq(lines, 1, Len(lines) - 1))
    ELSE lines

\* C1: for every script that parses, every bare-name call N(...) of a name
\* that is neither in the registry nor defined in the script has its line
\* replaced by  pass  at the same indentation, annotated with N, and N is
\* among the names strip_unknown_calls returns.
C1_EveryUnknownCallStrippedAndNamed ==
    (pc = "stripped" /\ ParseOK(Source.lines)) =>
        \A i \in DOMAIN Source.lines :
            \A k \in DOMAIN Calls(Source.lines[i]) :
                LET N == Calls(Source.lines[i])[k]
                IN  (N \notin RegistryNames /\ N \notin DefinedInSource) =>
                        /\ i \in DOMAIN stripped.code.lines
                        /\ stripped.code.lines[i]
                               = StrippedLine(Source.lines[i].ind, N)
                        /\ N \in Range(stripped.removed)

\* C2: sanitizing the sanitized script changes no line and yields no
\* diagnostic.
C2_SanitizeIdempotent ==
    pc = "resanitized" =>
        /\ TrimEmpty(again.code.lines) = TrimEmpty(code.lines)
        /\ again.removed = <<>>

\* C3: the sanitization of main (strip_unknown_calls, then
\* guard_fillet_chamfer) leaves a script that does not parse unmodified (up
\* to the empty lines at its end) and returns no diagnostic.
C3_UnparsedUnmodifiedByMain ==
    (pc = "guarded" /\ ~ParseOK(Source.lines)) =>
        /\ TrimEmpty(code.lines) = TrimEmpty(Source.lines)
        /\ stripped.removed = <<>>

\* C4: when the script parses, no failure of a fillet operation leaves the
\* execution of the guarded script: the script is not aborted by it.
C4_FilletFailureNeverAborts ==
    (run.status # "none" /\ ParseOK(Source.lines)) =>
        ~(run.status = "Exception" /\ run.at \in fails)

\* ----------------------------------------------------------------- main
PipelineOrder == <<"strip", "guard", "exec", "normalize", "ensure", "export">>

IsPrefix(p, q) == Len(p) <= Len(q) /\ p = SubSeq(q, 1, Len(p))

LastStage == IF stages = <<>> THEN "none" ELSE stages[Len(stages)]

\* C5: the stages start in the fixed order, each at most once; a fatal
\* error ends the run at the stage that raised it; exit status 0 with the
\* message "Exported" is reached only when every stage has run, the script
\* and the normalization have succeeded and the shape has been exported.
C5_StagesInOrderOnce ==
    /\ IsPrefix(stages, PipelineOrder)
    /\ exitCode = 2 => (pc = "exit" /\ LastStage = "exec")
    /\ exitCode = 3 => (pc = "exit" /\ LastStage = "exec")
    /\ exitCode = 4 => (pc = "exit" /\ LastStage \in {"normalize", "export"})
    /\ exitCode = 5 => (pc = "exit" /\ LastStage = "ensure")
    /\ (exitCode = 0 /\ Msg("exported", 0) \in Range(log)) =>
           /\ stages = PipelineOrder
           /\ run.status = "ok"
           /\ norm.status = "ok"
           /\ exported = normalized
           /\ exported # NoShape

\* a run that ends in success after a fusion has been applied
C5_Witness ==
    /\ pc = "done"
    /\ exitCode = 0
    /\ stages = PipelineOrder
    /\ exported.merged > 1

\* C6: a script that raises ends the run with exit status 2 and a trace; a
\* script that ends without a usable  result  ends it with exit status 3;
\* neither is followed by the normalization or the export.
C6_ExecutorErrors ==
    /\ run.status \notin {"none", "ok"} =>
           /\ exitCode = 2
           /\ Msg("traceback", 0) \in Range(log)
           /\ "normalize" \notin Range(stages)
           /\ exported = NoShape
    /\ (run.status = "ok" /\ pc # "executed"
           /\ (root = 0 \/ heap[root].k = "none")) =>
           /\ exitCode = 3
           /\ "normalize" \notin Range(stages)
           /\ exported = NoShape

\* ------------------------------------------------------------ normalization
\* the leaves of the tree of containers under r, from left to right
RECURSIVE Leaves(_, _)
RECURSIVE LeavesOfAll(_, _)
LeavesOfAll(h, refs) ==
    IF refs = <<>> THEN <<>>
    ELSE Leaves(h, Head(refs)) \o LeavesOfAll(h, Tail(refs))

Leaves(h, r) ==
    IF h[r].k \in {"list", "tuple", "set", "map"} THEN LeavesOfAll(h, h[r].kids)
    ELSE <<r>>

Occurrences(seq, x) == Cardinality({i \in DOMAIN seq : seq[i] = x})

SameBag(p, q) ==
    \A x \in Range(p) \cup Range(q) : Occurrences(p, x) = Occurrences(q, x)

\* the heap with one more object: the flat list of the leaves under r
FlatHeap(h, r) == Append(h, Obj("list", Leaves(h, r), 0, 0))

\* C7: the normalization of a result gives the same outcome, the same set
\* of exportable shapes and the same invalid entries as the normalization
\* of the flat list of its leaves, however the leaves are grouped.
C7_NestingInsensitive ==
    norm.status # "none" =>
        LET fh   == FlatHeap(heap, root)
            here == ExtractExportables(heap, root)
            flat == ExtractExportables(fh, Len(fh))
        IN  /\ Range(here.found) = Range(flat.found)
            /\ SameBag(here.invalid, flat.invalid)
            /\ NormalizeResultForExport(heap, root).status
                   = NormalizeResultForExport(fh, Len(fh)).status
            /\ norm.status \in {NormalizeResultForExport(fh, Len(fh)).status,
                                "compound-error"}
            /\ norm.status = "ok" => Range(norm.parts) = Range(flat.found)

\* a normalized result whose leaves lie at two depths, one in a set or a
\* mapping
C7_Witness ==
    /\ norm.status = "ok"
    /\ heap[root].k = "list"
    /\ Len(heap[root].kids) = 2
    /\ heap[heap[root].kids[1]].k = "shape"
    /\ heap[heap[root].kids[2]].k \in {"set", "map"}
    /\ Len(heap[heap[root].kids[2]].kids) = 2

IsShapeRef(h, r) == h[r].k = "shape"

IsInvalidRef(h, r) == h[r].k \in {"str", "scalar", "other"}

EntryOfLeaf(h, r) ==
    [kind  |-> CASE h[r].k = "str" -> "string"
                 [] h[r].k = "scalar" -> "scalar"
                 [] OTHER -> "type",
     v     |-> h[r].v,
     shown |-> IF h[r].k = "str" THEN Min(h[r].len, 40) ELSE 0]

RECURSIVE EntriesOf(_, _)
EntriesOf(h, refs) ==
    IF refs = <<>> THEN <<>>
    ELSE (IF IsInvalidRef(h, Head(refs)) THEN <<EntryOfLeaf(h, Head(refs))>>
          ELSE <<>>) \o EntriesOf(h, Tail(refs))

\* C8: the normalization fails with no-geometry exactly when the result
\* holds no shape, also when it holds invalid entries; it fails with
\* mixed-content, naming the first 3 invalid entries in the order of the
\* traversal, exactly when it holds a shape and an invalid entry; it
\* succeeds only when it holds shapes only, and then nothing but the
\* construction of the Compound of several shapes can fail.  Every failure
\* ends the run with exit status 4.
C8_OutcomeAfterTraversal ==
    norm.status # "none" =>
        LET leaves  == Leaves(heap, root)
            shapes  == {i \in DOMAIN leaves : IsShapeRef(heap, leaves[i])}
            entries == EntriesOf(heap, leaves)
        IN  /\ norm.status = "no-geometry" <=> shapes = {}
            /\ norm.status = "mixed" <=> (shapes # {} /\ entries # <<>>)
            /\ norm.status = "ok" => (shapes # {} /\ entries = <<>>)
            /\ (shapes # {} /\ entries = <<>>) =>
                   norm.status \in {"ok", "compound-error"}
            /\ norm.status = "compound-error" =>
                   Cardinality({leaves[i] : i \in shapes}) > 1
            /\ norm.status = "mixed" =>
                   norm.examples = SubSeq(entries, 1, Min(Len(entries), 3))
            /\ norm.status # "ok" => (exitCode = 4 /\ pc = "exit")

\* a result with a shape and more than 3 invalid entries, the first of
\* them the string "oops"
C8_Witness ==
    /\ norm.status = "mixed"
    /\ Len(EntriesOf(heap, Leaves(heap, root))) > 3
    /\ Len(norm.examples) = 3
    /\ norm.examples[1] = [kind |-> "string", v |-> 1, shown |-> 4]

\* C9: the exportable list holds every shape of the result once: no object
\* is in it twice, and two distinct shapes are both in it even when they
\* are equal.
C9_DedupByIdentity ==
    norm.status = "ok" =>
        /\ IsInjective(norm.parts)
        /\ Range(norm.parts) =
               {r \in Range(Leaves(heap, root)) : IsShapeRef(heap, r)}

\* a result that holds a shape twice, at two depths, and a second shape
\* equal to it
C9_Witness ==
    /\ norm.status = "ok"
    /\ Occurrences(Leaves(heap, root), 1) = 2
    /\ Len(heap[root].kids) = 2
    /\ heap[root].kids[2] = 1
    /\ heap[1].v = heap[2].v
    /\ Range(norm.parts) = {1, 2}

\* ------------------------------------------------------------------ repair
\* C10: once a fusion reports failure, the run has ended with exit status 5
\* and the split-body message that gives the number of solids; that fusion
\* is the last one attempted, and no fused shape is kept or exported.
C10_FuseFailureIsFatal ==
    "failed" \in Range(fuses) =>
        /\ fuses[Len(fuses)] = "failed"
        /\ \A i \in 1..(Len(fuses) - 1) : fuses[i] = "done"
        /\ pc = "exit"
        /\ exitCode = 5
        /\ log[Len(log)] = Msg("split-body-fuse-failed", count)
        /\ count > 1
        /\ normalized.merged = 0
        /\ exported = NoShape

\* three solids: the first fusion is done, the second reports failure
C10_Witness ==
    /\ count = 3
    /\ fuses = <<"done", "failed">>
    /\ exitCode = 5

\* _ensure_single_solid has returned a shape to main
Returned ==
    /\ "ensure" \in Range(stages)
    /\ pc \notin {"fusing", "fused"}
    /\ exitCode # 5

\* every fusion of the loop over solids[1:] has been done
AllFused ==
    /\ count > 1
    /\ Len(fuses) = count - 1
    /\ \A i \in DOMAIN fuses : fuses[i] = "done"
    /\ pc # "fused"

FusedToOne ==
    /\ Returned
    /\ solids = 1
    /\ normalized.merged = count
    /\ Msg("fused", count) \in Range(log)

SplitAfterFuse ==
    /\ pc = "exit"
    /\ exitCode = 5
    /\ log[Len(log)] = Msg("split-body-after-fuse", count)
    /\ normalized.merged = 0
    /\ exported = NoShape

\* the unrepaired shape is passed through after a warning
PassedWithWarning ==
    /\ Returned
    /\ Msg("warning-solid-check", 0) \in Range(log)
    /\ normalized.merged = 0

\* C11 as it is stated: when the normalized shape has more than one solid
\* and every fusion has been done, _ensure_single_solid returns a shape of
\* exactly 1 solid and writes the FUSED message with the number of solids
\* merged, or it ends the run with the split-body error.
C11_AllFusedGivesOneSolid ==
    AllFused => (FusedToOne \/ SplitAfterFuse)

\* C11, amended: ... or, when building or counting the fused shape raises,
\* it writes a warning and returns the unrepaired shape with all its solids.
C11_AllFusedOneSolidOrWarning ==
    AllFused =>
        \/ FusedToOne
        \/ SplitAfterFuse
        \/ (PassedWithWarning /\ solids = count)

\* three solids, both fusions done, then the count of the fused shape
\* raises: the shape of three solids is returned and exported
C11_Witness ==
    /\ count = 3
    /\ fuses = <<"done", "done">>
    /\ PassedWithWarning
    /\ solids = 3
    /\ exported = normalized
    /\ pc = "done"

\* C12 as it is stated: whenever _ensure_single_solid returns a shape, that
\* shape has exactly one solid.
C12_ReturnedHasOneSolid ==
    Returned => solids = 1

\* C12, amended: whenever _ensure_single_solid returns a shape, either it
\* has counted at most one solid and returns the shape unchanged (a shape
\* without a solid too), or it has fused the solids into a shape of exactly
\* one solid, or the count or the fusion raised, a warning is written and
\* the unrepaired shape is returned unchanged.
C12_ReturnedOneSolidAtMostOrWarning ==
    Returned =>
        \/ (solids <= 1 /\ normalized.merged = 0 /\ fuses = <<>>)
        \/ FusedToOne
        \/ PassedWithWarning

\* a shape without a solid is returned unchanged, without a warning, and
\* is exported
C12_Witness ==
    /\ pc = "done"
    /\ solids = 0
    /\ normalized.merged = 0
    /\ Msg("warning-solid-check", 0) \notin Range(log)
    /\ exported = normalized

\* ------------------------------------------------------- degenerate faces
\* the number of faces a selector denotes: the length of a list of
\* indices, the number of true entries of a mask
Denoted(sel) ==
    IF sel.kind = "idx" THEN Len(sel.items)
    ELSE Len(SelectSeq(sel.items, LAMBDA b : b))

Exposes(sig) == sig.how \in {"value", "callable"} /\ sig.sel.kind # "scalar"

NotExposed(sig) == sig.how \in {"absent", "none"}

\* the faces of the list of areas whose area is not finite or is at most
\* 1e-12
SmallAreas(m) ==
    Len(SelectSeq(m.areas.items,
                  LAMBDA a : a.k \in {"nan", "inf"}
                                 \/ (a.k = "num" /\ ~(a.v > AreaEps))))

\* C13: when the mesh has a degenerate_faces indicator, as a value or as a
\* callable, count_degenerate_faces returns the number of faces it denotes
\* (the length of an index list, the number of true entries of a mask),
\* whatever the other signals of the mesh are.
C13_DegenerateIndicatorFirst ==
    (pc = "counted" /\ Exposes(mesh.deg)) =>
        degen = Value(Denoted(mesh.deg.sel))

\* a callable that returns a numpy mask with one true entry, on a mesh
\* whose nondegenerate_faces would give two
C13_Witness ==
    /\ pc = "counted"
    /\ mesh.deg = [how |-> "callable",
                   sel |-> [kind |-> "bool_", items |-> <<TRUE, FALSE>>]]
    /\ mesh.nondeg = [how |-> "value", sel |-> [kind |-> "idx", items |-> <<>>]]
    /\ mesh.faces = [has |-> TRUE, n |-> 2]
    /\ degen = Value(1)

\* C14: when the mesh has no degenerate_faces indicator but a
\* nondegenerate_faces indicator, count_degenerate_faces returns the number
\* of faces minus the number the indicator denotes when that lies between 0
\* and the number of faces, and the result of the areas otherwise.
C14_NondegenerateComplement ==
    (/\ pc = "counted"
     /\ NotExposed(mesh.deg)
     /\ Exposes(mesh.nondeg)
     /\ mesh.faces.has) =>
        IF Denoted(mesh.nondeg.sel) <= mesh.faces.n
        THEN degen = Value(mesh.faces.n - Denoted(mesh.nondeg.sel))
        ELSE degen = Value(IF mesh.areas.how = "value" THEN SmallAreas(mesh)
                                                      ELSE 0)

\* a list of two indices on a mesh of one face: the area of the face decides
C14_WitnessRejected ==
    /\ pc = "counted"
    /\ mesh.deg.how = "absent"
    /\ mesh.nondeg = [how |-> "value",
                      sel |-> [kind |-> "idx", items |-> <<TRUE, TRUE>>]]
    /\ mesh.faces = [has |-> TRUE, n |-> 1]
    /\ mesh.areas = [how |-> "value", items |-> <<>>]
    /\ degen = Value(0)

\* a mask with one true entry on a mesh of two faces: one degenerate face
C14_Witness ==
    /\ pc = "counted"
    /\ mesh.deg.how = "none"
    /\ mesh.nondeg = [how |-> "callable",
                      sel |-> [kind |-> "bool", items |-> <<TRUE, FALSE>>]]
    /\ mesh.faces = [has |-> TRUE, n |-> 2]
    /\ degen = Value(1)

\* C15: when the mesh has only the areas of its faces,
\* count_degenerate_faces returns the number of faces whose area is not
\* finite or is at most 1e-12.
C15_AreaFallback ==
    (/\ pc = "counted"
     /\ NotExposed(mesh.deg)
     /\ NotExposed(mesh.nondeg)
     /\ mesh.areas.how = "value") =>
        degen = Value(SmallAreas(mesh))

\* areas [1e-12, 1.1e-12]: the first face is degenerate, the second is not
C15_Witness ==
    /\ pc = "counted"
    /\ mesh.deg.how = "absent"
    /\ mesh.nondeg.how = "absent"
    /\ mesh.areas = [how |-> "value", items |-> <<Num(AreaEps), Num(AreaEps + 1)>>]
    /\ degen = Value(1)

\* no signal of the mesh gives a selector or a list of areas
Fails(sig) ==
    \/ sig.how \in {"absent", "none", "raises", "callraises"}
    \/ sig.sel.kind = "scalar"

\* C16: when the mesh has none of the three signals, or every signal it has
\* fails to evaluate, count_degenerate_faces returns 0 and does not raise.
C16_NoSignalGivesZero ==
    (/\ pc = "counted"
     /\ Fails(mesh.deg)
     /\ Fails(mesh.nondeg)
     /\ mesh.areas.how # "value") =>
        degen = Value(0)

\* ------------------------------------------------------------- mesh report
\* execute_code has read a report
Judged == pc = "judged" /\ exitCode = 0

\* C17: the verdict is true exactly when the report says watertight,
\* winding_consistent, degenerate_faces = 0 and euler_number = 2, all at
\* once; a report that lacks one of these fields is not manifold.
C17_ManifoldVerdict ==
    Judged =>
        (manifold <=>
            /\ VerdictFields \subseteq DOMAIN parsed
            /\ parsed.watertight
            /\ parsed.winding_consistent
            /\ parsed.degenerate_faces = 0
            /\ parsed.euler_number = 2)

\* a report of a sound mesh that lacks only euler_number: not manifold
C17_Witness ==
    /\ Judged
    /\ DOMAIN parsed = DOMAIN report \ {"euler_number"}
    /\ parsed.watertight
    /\ parsed.winding_consistent
    /\ parsed.degenerate_faces = 0
    /\ report.euler_number = 2
    /\ ~manifold

\* a complete report of a sound mesh: manifold
C17_WitnessManifold ==
    /\ Judged
    /\ VerdictFields \subseteq DOMAIN parsed
    /\ manifold

\* cmd_mesh_check has printed a report
Checked == pc \in {"checked", "judged"} /\ exitCode = 0

KindsOf(q) == {q[i].kind : i \in DOMAIN q}

\* C18: the issues of a report hold one message for each check that failed
\* (not watertight, inconsistent winding, degenerate faces, Euler number
\* other than 2, negative volume of a watertight mesh) and nothing else,
\* so they are empty exactly when no check failed and agree with the
\* fields of the report.
C18_IssuesAgreeWithFields ==
    Checked =>
        LET failed ==
                (IF ~report.watertight THEN {"not-watertight"} ELSE {})
                    \cup (IF ~report.winding_consistent
                          THEN {"inconsistent-winding"} ELSE {})
                    \cup (IF report.degenerate_faces > 0
                          THEN {"degenerate-faces"} ELSE {})
                    \cup (IF report.euler_number # 2
                          THEN {"euler-number"} ELSE {})
                    \cup (IF mesh.watertight /\ mesh.volume < 0
                          THEN {"negative-volume"} ELSE {})
        IN  /\ KindsOf(report.issues) = failed
            /\ Len(report.issues) = Cardinality(failed)
            /\ (report.issues = <<>>) <=> (failed = {})
            /\ report.watertight = mesh.watertight
            /\ report.winding_consistent = mesh.winding
            /\ report.euler_number = mesh.euler
            /\ report.degenerate_faces =
                   mesh.faces.n - Len(SelectSeq(mesh.nondeg.sel.items,
                                                LAMBDA b : b))
            /\ report.volume >= 0

\* a watertight mesh of negative volume, with a degenerate face and Euler
\* number 0: three issues
C18_Witness ==
    /\ Checked
    /\ mesh.watertight
    /\ mesh.volume < 0
    /\ report.degenerate_faces = 1
    /\ report.euler_number = 0
    /\ Len(report.issues) = 3

\* a sound mesh: no issue
C18_WitnessSound ==
    /\ Checked
    /\ report.watertight
    /\ report.issues = <<>>

\* ------------------------------------------------------------------- gates
\* the rate of the summary, 0 when the summary does not have it
RateOf(k) == IF k \in DOMAIN gateArgs.summary THEN gateArgs.summary[k] ELSE 0

GateOf(k) ==
    CASE k = "first_pass_success_rate" -> gateArgs.gate_first_pass
      [] k = "success_within_max_attempts_rate" -> gateArgs.gate_success_within
      [] k = "manifold_pass_rate" -> gateArgs.gate_manifold

\* the conditions that are violated
Violated ==
    {Failure(k, "gate") : k \in {r \in RateKeys : RateOf(r) < GateOf(r)}}
        \cup {Failure(k, "regression") :
                 k \in {r \in RateKeys :
                           /\ gateArgs.baseline_summary.given
                           /\ r \in DOMAIN gateArgs.baseline_summary.rates
                           /\ gateArgs.baseline_summary.rates[r] - RateOf(r)
                                  > gateArgs.gate_max_drop_pp}}

\* C19: evaluate_gates returns one failure for each violated condition and
\* nothing else: each rate strictly below its gate and, with a baseline,
\* each rate that dropped by strictly more than the maximum; the list is
\* empty exactly when no condition is violated.
C19_FailuresAreViolations ==
    pc = "gated" =>
        /\ Range(failures) = Violated
        /\ Len(failures) = Cardinality(Violated)
        /\ (failures = <<>>) <=> (Violated = {})

\* the first-pass rate is equal to its gate and dropped by exactly the
\* maximum, the manifold rate is below its gate and dropped by more
C19_Witness ==
    /\ pc = "gated"
    /\ gateArgs.summary = [first_pass_success_rate |-> 1,
                           success_within_max_attempts_rate |-> 2,
                           manifold_pass_rate |-> 0]
    /\ gateArgs.baseline_summary.given
    /\ gateArgs.baseline_summary.rates = [first_pass_success_rate |-> 2,
                                          manifold_pass_rate |-> 2]
    /\ gateArgs.gate_first_pass = 1
    /\ gateArgs.gate_manifold = 1
    /\ gateArgs.gate_max_drop_pp = 1
    /\ failures = <<Failure("manifold_pass_rate", "gate"),
                    Failure("manifold_pass_rate", "regression")>>

\* -------------------------------------------------------------- orientation
\* height x 1.0 + overhang_pct x 2.0 - base_area x 0.5, doubled
Cost(i) ==
    evaluated[i].height * 2 + evaluated[i].overhang_pct * 4
        - evaluated[i].base_area

\* the first of the candidates of minimum cost
FirstCheapest ==
    CHOOSE i \in DOMAIN evaluated :
        /\ \A j \in DOMAIN evaluated : Cost(i) <= Cost(j)
        /\ \A j \in 1..(i - 1) : Cost(j) > Cost(i)

\* to two decimals, from thousandths to hundredths
Hundredths(v) ==
    IF v % 10 < 5 THEN v \div 10 ELSE v \div 10 + 1

\* C20: cmd_orient reports the rotation of minimum cost among the 12
\* candidates, the first one of the list when several have that cost (the
\* identity when no candidate costs strictly less than it), with the
\* height, overhang_pct and base_area of that rotation.
C20_FirstCheapestWins ==
    pc = "oriented" =>
        /\ Len(evaluated) = 12
        /\ oriented.candidates_evaluated = 12
        /\ oriented.rotation = Candidates[FirstCheapest]
        /\ oriented.height = Hundredths(evaluated[FirstCheapest].height)
        /\ oriented.overhang_pct =
               Hundredths(evaluated[FirstCheapest].overhang_pct)
        /\ oriented.base_area =
               Hundredths(evaluated[FirstCheapest].base_area)
        /\ (\A j \in DOMAIN evaluated : Cost(j) >= Cost(1)) =>
               oriented.rotation = <<0, 0, 0>>

\* two rotations cost the same, less than the identity, and differ in
\* height: the one evaluated first is reported
C20_Witness ==
    /\ pc = "oriented"
    /\ oriented.rotation = <<0, 90, 0>>
    /\ oriented.height = 1000
    /\ \E j \in 5..12 :
           /\ Cost(j) = Cost(4)
           /\ evaluated[j].height # evaluated[4].height
    /\ Cost(1) > Cost(4)

\* -------------------------------------------------------------- diagnostics
\* the messages of a kind that have been written
Written(kind) == Len(SelectSeq(log, LAMBDA m : m.kind = kind))

\* the lines of main's code of a template
LinesOf(t) == Len(SelectSeq(code.lines, LAMBDA l : l.t = t))

\* C21: every local recovery of the pipeline leaves a diagnostic: one
\* message for each line strip_unknown_calls has replaced, one for each
\* fillet line guard_fillet_chamfer has wrapped, one for the fusion that
\* was applied, also when the run ends in success.
C21_EveryRecoveryHasDiagnostic ==
    /\ "strip" \in Range(stages) =>
           Written("validator-stripped") = LinesOf("stripped")
    /\ "guard" \in Range(stages) =>
           Written("fillet-guarded") = LinesOf("marker")
    /\ normalized.merged > 0 =>
           Msg("fused", normalized.merged) \in Range(log)

\* ------------------------------------------------------------ bound names
\* the names a line binds, by any binding form: the target of an
\* assignment, the name and the parameters of a function definition
BoundBy(l) ==
    CASE l.t \in {"build", "fillet"}  -> {"result"}
      [] l.t \in {"bindcall", "bind"} -> {"helper"}
      [] l.t = "def"                  -> {"run", "helper"}
      [] OTHER                        -> {}

BoundInSource == UNION {BoundBy(Source.lines[i]) : i \in DOMAIN Source.lines}

\* C22: no line is replaced for a call of a name the script binds
\* somewhere, by whatever binding form.
C22_BoundNameNeverStripped ==
    (pc = "stripped" /\ ParseOK(Source.lines)) =>
        \A i \in DOMAIN stripped.code.lines :
            stripped.code.lines[i].t = "stripped" =>
                stripped.code.lines[i].n \notin BoundInSource

\* -------------------------------------------------------------- the guard
\* the else clause at h closes an except clause: it is part of a try
\* statement, not of an if statement
ElseOfTry(lines, h) ==
    LET before == {j \in 1..(h - 1) :
                      IsLogical(lines[j]) /\ lines[j].ind <= lines[h].ind}
    IN  /\ before # {}
        /\ LET j == CHOOSE x \in before : \A y \in before : y <= x
           IN  lines[j].t = "except" /\ lines[j].ind = lines[h].ind

\* the header at h opens a block of a try statement
OpensHandlerBlock(lines, h) ==
    \/ lines[h].t \in {"try", "except"}
    \/ lines[h].t = "else" /\ ElseOfTry(lines, h)

\* line i is nested inside a failure-handling block according to the
\* indentation: a header of a try statement above it is indented less than
\* every line that is not blank from the one after the header down to i
NestedInHandler(lines, i) ==
    \E h \in 1..(i - 1) :
        /\ OpensHandlerBlock(lines, h)
        /\ \A j \in (h + 1)..i : IsBlank(lines[j]) \/ lines[j].ind > lines[h].ind

\* the line is to be wrapped
ToBeWrapped(lines, i) ==
    /\ ~IsBlank(lines[i])
    /\ ~IsComment(lines[i])
    /\ HasFilletText(lines[i])
    /\ ~HasGuardMarker(lines[i])
    /\ ~NestedInHandler(lines, i)

\* the line in its own try/except at the same indentation
Wrapped(l) ==
    << Line("marker", l.ind), Line("try", l.ind),
       [t |-> l.t, ind |-> l.ind + 4, n |-> l.n],
       Line("except", l.ind), Line("pass", l.ind + 4) >>

RECURSIVE GuardedFrom(_, _)
GuardedFrom(lines, i) ==
    IF i > Len(lines) THEN <<>>
    ELSE (IF ToBeWrapped(lines, i) THEN Wrapped(lines[i]) ELSE <<lines[i]>>)
             \o GuardedFrom(lines, i + 1)

\* C23, for the scripts that parse: guard_fillet_chamfer emits each line
\* that is not blank, is no comment, holds a fillet call, has no marker and
\* is not nested inside a block of a try statement, wrapped in its own
\* try/except at the same indentation, and every other line unchanged.
C23_GuardWrapsUnprotectedFillets ==
    (pc = "guarded" /\ ParseOK(stripped.code.lines)) =>
        TrimEmpty(code.lines) = TrimEmpty(GuardedFrom(stripped.code.lines, 1))

\* ------------------------------------------------------- the order of rules
\* the rules of the classification, in their order
RuleOrder ==
    <<"none", "string", "mapping", "sequence", "vals", "val", "part",
      "sketch", "shape", "scalar", "other">>

\* rule applies to the object of reference r; an accessor applies when it
\* yields something
Matches(h, r, rule) ==
    LET o == h[r] IN
    CASE rule = "none"     -> o.k = "none"
      [] rule = "string"   -> o.k = "str"
      [] rule = "mapping"  -> o.k = "map"
      [] rule = "sequence" -> o.k \in {"list", "tuple", "set"}
      [] rule = "vals"     -> /\ "vals" \in o.attrs
                              /\ "vals" \notin o.raises
                              /\ o.kids # <<>>
      [] rule = "val"      -> /\ "val" \in o.attrs
                              /\ "val" \notin o.raises
                              /\ o.kids # <<>>
                              /\ h[o.kids[1]].k # "none"
                              /\ o.kids[1] # r
      [] rule = "part"     -> /\ "part" \in o.attrs
                              /\ o.kids # <<>>
                              /\ h[o.kids[1]].k # "none"
      [] rule = "sketch"   -> /\ "sketch" \in o.attrs
                              /\ o.kids # <<>>
                              /\ h[o.kids[Len(o.kids)]].k # "none"
      [] rule = "shape"    -> o.k = "shape" \/ "wrapped" \in o.attrs
      [] rule = "scalar"   -> o.k = "scalar"
      [] OTHER             -> TRUE

FirstRule(h, r) ==
    RuleOrder[CHOOSE i \in DOMAIN RuleOrder :
                  /\ Matches(h, r, RuleOrder[i])
                  /\ \A j \in 1..(i - 1) : ~Matches(h, r, RuleOrder[j])]

\* the objects the first rule of r goes on with
Inner(h, r) ==
    LET rule == FirstRule(h, r) IN
    CASE rule \in {"mapping", "sequence", "vals"} -> h[r].kids
      [] rule \in {"val", "part"} -> <<h[r].kids[1]>>
      [] rule = "sketch" -> <<h[r].kids[Len(h[r].kids)]>>
      [] OTHER -> <<>>

\* the objects the classification ends at, in the order of the traversal,
\* each with the rule it ends by
RECURSIVE Classified(_, _)
RECURSIVE ClassifiedAll(_, _)
ClassifiedAll(h, refs) ==
    IF refs = <<>> THEN <<>>
    ELSE Classified(h, Head(refs)) \o ClassifiedAll(h, Tail(refs))

Classified(h, r) ==
    IF FirstRule(h, r) \in {"mapping", "sequence", "vals", "val", "part", "sketch"}
    THEN ClassifiedAll(h, Inner(h, r))
    ELSE <<[ref |-> r, rule |-> FirstRule(h, r)]>>

\* the references of q without the later occurrences of a reference
RECURSIVE FirstOccurrences(_)
FirstOccurrences(q) ==
    IF q = <<>> THEN <<>>
    ELSE LET rest == FirstOccurrences(SubSeq(q, 1, Len(q) - 1))
             x    == q[Len(q)]
         IN  IF x \in Range(rest) THEN rest ELSE Append(rest, x)

ShapesOf(c) ==
    LET q == SelectSeq(c, LAMBDA e : e.rule = "shape")
    IN  FirstOccurrences([i \in DOMAIN q |-> q[i].ref])

EntryBy(h, e) ==
    [kind  |-> CASE e.rule = "string" -> "string"
                 [] e.rule = "scalar" -> "scalar"
                 [] OTHER -> "type",
     v     |-> h[e.ref].v,
     shown |-> IF e.rule = "string" THEN Min(h[e.ref].len, 40) ELSE 0]

InvalidOf(h, c) ==
    LET q == SelectSeq(c, LAMBDA e : e.rule \in {"string", "scalar", "other"})
    IN  [i \in DOMAIN q |-> EntryBy(h, q[i])]

\* C24: every object of the candidate tree is handled by the first rule, in
\* the order None, string, mapping, sequence, vals(), val(), part, sketch,
\* shape, scalar, anything else, that applies to it, where an accessor
\* that raises, vals() that returns nothing and val() that returns None or
\* the object itself do not apply: the shapes found, the invalid entries
\* and the outcome of the normalization are those of this classification.
C24_FirstMatchingRule ==
    norm.status # "none" =>
        LET c == Classified(heap, root)
            x == ExtractExportables(heap, root)
        IN  /\ x.found = ShapesOf(c)
            /\ x.invalid = InvalidOf(heap, c)
            /\ norm.status = "no-geometry" <=> ShapesOf(c) = <<>>
            /\ norm.status = "mixed" <=>
                   (ShapesOf(c) # <<>> /\ InvalidOf(heap, c) # <<>>)
            /\ norm.status = "ok" => norm.parts = ShapesOf(c)

\* an object whose vals() raises and whose val() returns the object itself
\* is exported as the shape it is
C24_Witness ==
    /\ norm.status = "ok"
    /\ root = Len(Pool) + 1
    /\ heap[root].attrs = {"vals", "val", "wrapped"}
    /\ heap[root].raises = {"vals"}
    /\ heap[root].kids = <<root>>
    /\ norm.parts = <<root>>

\* an object whose vals() returns nothing, whose val() returns None and
\* whose part is None is classified by its sketch, a shape
C24_WitnessFallsThrough ==
    /\ norm.status = "ok"
    /\ root = Len(Pool) + 1
    /\ heap[root].k = "other"
    /\ heap[root].attrs = {"val", "part", "sketch", "wrapped"}
    /\ heap[root].raises = {}
    /\ heap[root].kids = <<5, 1>>
    /\ norm.parts = <<1>>

\* C28: the extraction ends on every structure without reaching the depth
\* at which the interpreter stops a recursion, also on an object that
\* holds itself or whose accessors lead back to it.
C28_ExtractionTerminates ==
    norm.status # "none" => ~ExtractExportables(heap, root).overflow

\* ------------------------------------------------------- tooling errors
\* the count or a fusion of _ensure_single_solid has raised
ToolingError == Msg("warning-solid-check", 0) \in Range(log)

\* C25: after an error raised by the count or by a fusion, the shape
\* _ensure_single_solid returns is the normalized shape it was given, with
\* nothing fused, the run has not ended with the split-body status, and the
\* export of that shape is the next stage: the run ends only if the export
\* itself fails.  A run that ends in _ensure_single_solid ends with status 5
\* and a split-body message.
C25_ToolingErrorPassesThrough ==
    /\ ToolingError =>
           /\ normalized = [parts |-> norm.parts, merged |-> 0]
           /\ exitCode # 5
           /\ pc = "ensured" \/ LastStage = "export"
           /\ pc \in {"ensured", "exported", "sidecar", "done", "exit"}
           /\ pc = "exit" => (exitCode = 4 /\ exported = NoShape)
           /\ pc \in {"exported", "sidecar", "done"} => exported = normalized
    /\ (LastStage = "ensure" /\ pc = "exit") =>
           /\ exitCode = 5
           /\ log[Len(log)].kind \in {"split-body-fuse-failed",
                                       "split-body-after-fuse"}
           /\ ~ToolingError

\* of three solids the first two are fused, the next fusion raises: the
\* shape of three solids is exported
C25_Witness ==
    /\ count = 3
    /\ fuses = <<"done", "raises">>
    /\ ToolingError
    /\ pc = "done"
    /\ exported = [parts |-> norm.parts, merged |-> 0]

\* every fusion is done and the count of the fused shape raises
C25_WitnessRecount ==
    /\ count = 2
    /\ fuses = <<"done">>
    /\ ToolingError
    /\ pc = "done"
    /\ exported = [parts |-> norm.parts, merged |-> 0]

\* ------------------------------------------------------------- the base
\* C26: the tolerance of the base is the larger of one hundredth of the
\* height and 0.1, and base_area is the area of the faces whose centroid is
\* less than that tolerance above the lowest point and whose normal has a
\* z component below -0.9.
C26_BaseToleranceIsMax ==
    pc = "measured" =>
        LET tolerance == Max(rotated.height \div 100, 1000)
            counted   == {i \in DOMAIN rotated.faces :
                             /\ rotated.faces[i].up < tolerance
                             /\ rotated.faces[i].nz < 0 - 900}
        IN  /\ base.tolerance = tolerance
            /\ base.area = SumAreas(rotated.faces, counted)

\* ------------------------------------------------------------ the registry
\* C27: over the calls of strip_unknown_calls of a process the registry is
\* constructed at most once, by the first call that asks for it; a call
\* whose script parses has used the cached set; and once the set is
\* constructed no step replaces it, changes its names or empties the cache.
C27_RegistryBuiltOnce ==
    /\ [](/\ cache.gen <= 1
          /\ cache.built <=> cache.gen = 1
          /\ cache.built => cache.names = RegistryNames
          /\ (pc = "stripped" /\ ParseOK(SplitLines(Source))) =>
                 /\ cache.built
                 /\ stripped = StripUnknownCalls(Source, cache.names))
    /\ [][cache.built => cache' = cache]_vars

\* the third call of a process strips a call with the set the first call
\* has constructed
C27_Witness ==
    /\ domain = "reg"
    /\ Len(stages) = 3
    /\ pc = "stripped"
    /\ cache.gen = 1
    /\ stripped.removed # <<>>
    /\ Written("validator-stripped") = 2

\* ------------------------------------------------------ syntactic validity
\* C29: when the script main has read parses, the script it has after
\* strip_unknown_calls and guard_fillet_chamfer parses too.
C29_SanitizedScriptParses ==
    (pc = "guarded" /\ ParseOK(Source.lines)) => ParseOK(code.lines)

\* ------------------------------------------------------------ the attempts
\* the attempts of the case that succeeded and were manifold
Passes == {i \in DOMAIN attempt.outcomes : attempt.outcomes[i] = "pass"}

\* C30: a case makes at most max(1, max_attempts) attempts; no attempt
\* follows one that succeeds and is manifold; and in the CaseResult
\* first_pass_success tells that attempt 1 was that attempt,
\* success_within_max_attempts equals manifold_pass, tells that an attempt
\* was, and is implied by first_pass_success.
C30_AttemptLoop ==
    /\ pc \in {"loop", "left", "recorded"} =>
           /\ attempt.attempts_used = Len(attempt.outcomes)
           /\ attempt.attempts_used <=
                  (IF attempt.max_attempts > 1 THEN attempt.max_attempts ELSE 1)
           /\ \A i \in Passes : i = Len(attempt.outcomes) /\ pc # "loop"
    /\ pc = "recorded" =>
           /\ caseResult.attempts = Len(attempt.outcomes)
           /\ caseResult.first_pass_success <=> 1 \in Passes
           /\ caseResult.success_within_max_attempts <=> Passes # {}
           /\ caseResult.success_within_max_attempts
                  = caseResult.manifold_pass
           /\ caseResult.first_pass_success =>
                  caseResult.success_within_max_attempts

\* the generator fails at attempt 1, the script of attempt 2 is not
\* manifold, that of attempt 3 passes
C30_Witness ==
    /\ pc = "recorded"
    /\ attempt.max_attempts = 3
    /\ attempt.outcomes = <<"generator", "non-manifold", "pass">>
    /\ caseResult.success_within_max_attempts
    /\ ~caseResult.first_pass_success

\* --max-attempts 0: one attempt is made, and it passes
C30_WitnessFirstPass ==
    /\ pc = "recorded"
    /\ attempt.max_attempts = 0
    /\ attempt.outcomes = <<"pass">>
    /\ caseResult.first_pass_success
====
